---- MODULE Spec2Model ----
(***************************************************************************)
(* QtVariantPropertyManager (the "Bridge") of qtvariantproperty.cpp: the   *)
(* type registry, the facade <-> internal property maps, creation and      *)
(* destruction of variant properties, and the value / attribute dispatch.  *)
(*                                                                         *)
(* Facades (QtVariantProperty) and internal properties (QtProperty of an   *)
(* internal manager) are numbered in allocation order; NULL is nullptr.    *)
(* A QVariant is a record [t |-> type id, v |-> payload]; type ids are the *)
(* QMetaType names, "UnknownType" being QMetaType::UnknownType (0).        *)
(*                                                                         *)
(* Signals are delivered synchronously.  Every operator threads a world    *)
(* record W (one field per state variable) through the calls the code      *)
(* makes, in the code's order, and appends each signal the Bridge emits to *)
(* W.emitted, each internal setter it reaches and each `delete` of an     *)
(* internal property it requests to W.calls, and each signal of an         *)
(* internal manager that reaches one of its slots to W.received.           *)
(***************************************************************************)
EXTENDS Integers, Sequences, FiniteSets, TLC

VARIABLES
    properties,                       \* facade objects (QtVariantProperty), by id
    internals,                        \* internal QtProperty objects, by id
    propertyToWrappedProperty,        \* process-global facade -> internal
    m_propertyToType,                 \* per Bridge: facade -> (facade, type id)
    m_internalToProperty,             \* per Bridge: internal -> facade
    m_creatingProperty,               \* per Bridge
    m_creatingSubProperties,          \* per Bridge
    m_destroyingSubProperties,        \* per Bridge
    m_propertyType,                   \* per Bridge: pending type id
    m_typeToPropertyManager,          \* per Bridge: type id -> internal manager
    m_typeToValueType,                \* per Bridge: type id -> value type id
    m_typeToAttributeToAttributeType, \* per Bridge: type id -> (name -> type id)
    alive,                            \* per Bridge: constructed and not destroyed
    m_managers,                       \* per editor factory: the managers added to it
    widgets,                          \* QObjects by id: dynamic class and m_axobject
    controls,                         \* foreign control instances (QAxWidget), by id
    last                              \* the last client call and what it produced

vars == <<properties, internals, propertyToWrappedProperty, m_propertyToType,
          m_internalToProperty, m_creatingProperty, m_creatingSubProperties,
          m_destroyingSubProperties, m_propertyType, m_typeToPropertyManager,
          m_typeToValueType, m_typeToAttributeToAttributeType, alive, m_managers,
          widgets, controls, last>>

(***************************************************************************)
(* Bounds of the model.                                                    *)
(***************************************************************************)
NumBridges == 2
MaxTopLevel == 1
MaxFacades == 4
MaxInternals == 4
MaxTypeFacades == 9
MaxCompositeFacades == 6
MaxFlagObjects == 6
MaxInferObjects == 3
MaxInheritedFacades == 2
MaxRouterObjects == 5
MaxControls == 3

Bridges == 1..NumBridges

(***************************************************************************)
(* Identities and type ids.                                                *)
(***************************************************************************)
NULL == 0

UnknownType == "UnknownType"

enumTypeId == "QtEnumPropertyType"

flagTypeId == "QtFlagPropertyType"

groupTypeId == "QtGroupPropertyType"

iconMapTypeId == "QtIconMap"

m_constraintAttribute == "constraint"
m_singleStepAttribute == "singleStep"
m_decimalsAttribute == "decimals"
m_enumIconsAttribute == "enumIcons"
m_enumNamesAttribute == "enumNames"
m_flagNamesAttribute == "flagNames"
m_maximumAttribute == "maximum"
m_minimumAttribute == "minimum"
m_regExpAttribute == "regExp"

(***************************************************************************)
(* Finite maps (QMap / QHash).                                             *)
(***************************************************************************)
EmptyMap == <<>>

Put(f, k, x) == [y \in (DOMAIN f) \cup {k} |-> IF y = k THEN x ELSE f[y]]

Remove(f, k) == [y \in (DOMAIN f) \ {k} |-> f[y]]

Lookup(f, k, dflt) == IF k \in DOMAIN f THEN f[k] ELSE dflt

SeqRemove(s, x) == SelectSeq(s, LAMBDA y : y # x)

SeqIndex(s, x) == IF \E i \in 1..Len(s) : s[i] = x
                  THEN CHOOSE i \in 1..Len(s) : s[i] = x
                  ELSE 0

SeqInsertAt(s, pos, x) == SubSeq(s, 1, pos) \o <<x>> \o SubSeq(s, pos + 1, Len(s))

(***************************************************************************)
(* The registry the constructor builds.                                    *)
(***************************************************************************)
ConcreteTypes ==
    {"Int", "Double", "Bool", "QString", "QDate", "QTime", "QDateTime",
     "QKeySequence", "QChar", "QLocale", "QPoint", "QPointF", "QSize",
     "QSizeF", "QRect", "QRectF", "QColor", "QSizePolicy", "QFont", "QCursor"}

ManagerClass(t) ==
    CASE t = "Int" -> "QtIntPropertyManager"
      [] t = "Double" -> "QtDoublePropertyManager"
      [] t = "Bool" -> "QtBoolPropertyManager"
      [] t = "QString" -> "QtStringPropertyManager"
      [] t = "QDate" -> "QtDatePropertyManager"
      [] t = "QTime" -> "QtTimePropertyManager"
      [] t = "QDateTime" -> "QtDateTimePropertyManager"
      [] t = "QKeySequence" -> "QtKeySequencePropertyManager"
      [] t = "QChar" -> "QtCharPropertyManager"
      [] t = "QLocale" -> "QtLocalePropertyManager"
      [] t = "QPoint" -> "QtPointPropertyManager"
      [] t = "QPointF" -> "QtPointFPropertyManager"
      [] t = "QSize" -> "QtSizePropertyManager"
      [] t = "QSizeF" -> "QtSizeFPropertyManager"
      [] t = "QRect" -> "QtRectPropertyManager"
      [] t = "QRectF" -> "QtRectFPropertyManager"
      [] t = "QColor" -> "QtColorPropertyManager"
      [] t = enumTypeId -> "QtEnumPropertyManager"
      [] t = "QSizePolicy" -> "QtSizePolicyPropertyManager"
      [] t = "QFont" -> "QtFontPropertyManager"
      [] t = "QCursor" -> "QtCursorPropertyManager"
      [] t = flagTypeId -> "QtFlagPropertyManager"
      [] t = groupTypeId -> "QtGroupPropertyManager"

\* A manager object: the one registered for type id `top`, or a sub-manager
\* of class `cls` that the manager registered for `top` owns.
TopManager(t) == [top |-> t, cls |-> ManagerClass(t)]

SubManager(t, c) == [top |-> t, cls |-> c]

TypeToPropertyManagerInit ==
    [t \in ConcreteTypes \cup {enumTypeId, flagTypeId, groupTypeId} |-> TopManager(t)]

TypeToValueTypeInit ==
    [t \in ConcreteTypes \cup {enumTypeId, flagTypeId, groupTypeId} |->
        IF t \in {enumTypeId, flagTypeId} THEN "Int"
        ELSE IF t = groupTypeId THEN UnknownType
        ELSE t]

TypeToAttributeToAttributeTypeInit ==
    ("Int" :> ((m_minimumAttribute :> "Int") @@ (m_maximumAttribute :> "Int")
                @@ (m_singleStepAttribute :> "Int")))
    @@ ("Double" :> ((m_minimumAttribute :> "Double") @@ (m_maximumAttribute :> "Double")
                @@ (m_singleStepAttribute :> "Double") @@ (m_decimalsAttribute :> "Int")))
    @@ ("QString" :> (m_regExpAttribute :> "QRegularExpression"))
    @@ ("QDate" :> ((m_minimumAttribute :> "QDate") @@ (m_maximumAttribute :> "QDate")))
    @@ ("QPointF" :> (m_decimalsAttribute :> "Int"))
    @@ ("QSize" :> ((m_minimumAttribute :> "QSize") @@ (m_maximumAttribute :> "QSize")))
    @@ ("QSizeF" :> ((m_minimumAttribute :> "QSizeF") @@ (m_maximumAttribute :> "QSizeF")
                @@ (m_decimalsAttribute :> "Int")))
    @@ ("QRect" :> (m_constraintAttribute :> "QRect"))
    @@ ("QRectF" :> ((m_constraintAttribute :> "QRectF") @@ (m_decimalsAttribute :> "Int")))
    @@ (enumTypeId :> ((m_enumNamesAttribute :> "QStringList")
                @@ (m_enumIconsAttribute :> iconMapTypeId)))
    @@ (flagTypeId :> (m_flagNamesAttribute :> "QStringList"))

(***************************************************************************)
(* QVariant: the boxed value.  Its conversion rules are Qt Core's          *)
(* (QMetaType::canConvert / QMetaType::convert), restricted to the value   *)
(* types the model's inputs carry.                                         *)
(***************************************************************************)
INT_MAX == 2147483647

INT_MIN == -2147483647 - 1

Invalid == [t |-> UnknownType, v |-> 0]

IntV(n) == [t |-> "Int", v |-> n]

BoolV(x) == [t |-> "Bool", v |-> x]

StrV(s) == [t |-> "QString", v |-> s]

StrListV(l) == [t |-> "QStringList", v |-> l]

RectV(r) == [t |-> "QRect", v |-> r]

isValid(x) == x.t # UnknownType

userType(x) == x.t

NumericTypes == {"Bool", "Int", "Double"}

\* QVariant::canConvert(QMetaType(to)) for a variant of type `from`: a
\* relation between types, whatever the value held.
canConvert(from, to) ==
    /\ from # UnknownType
    /\ to # UnknownType
    /\ \/ from = to
       \/ from \in NumericTypes /\ to \in NumericTypes
       \/ from = "QString" /\ to \in NumericTypes \cup
             {"QStringList", "QChar", "QDate", "QTime", "QDateTime",
              "QColor", "QFont", "QKeySequence"}
       \/ to = "QString" /\ from \in NumericTypes \cup
             {"QStringList", "QChar", "QDate", "QTime", "QDateTime",
              "QColor", "QFont", "QKeySequence"}
       \/ from = "Int" /\ to = "QKeySequence"
       \/ from = "QKeySequence" /\ to = "Int"
       \/ {from, to} \in {{"QRect", "QRectF"}, {"QSize", "QSizeF"},
                          {"QPoint", "QPointF"}, {"QDate", "QDateTime"}}
       \/ from = "QDateTime" /\ to = "QTime"

\* The decimal numerals QString::toInt / QString::number know in the model.
Decimal ==
    (-1 :> "-1") @@ (0 :> "0") @@ (1 :> "1") @@ (2 :> "2") @@ (3 :> "3")
    @@ (4 :> "4") @@ (5 :> "5") @@ (6 :> "6") @@ (7 :> "7") @@ (8 :> "8")
    @@ (9 :> "9") @@ (10 :> "10") @@ (11 :> "11")

\* QString::toInt: 0 when the text is no numeral.
StrToInt(s) ==
    IF \E n \in DOMAIN Decimal : Decimal[n] = s
    THEN CHOOSE n \in DOMAIN Decimal : Decimal[n] = s
    ELSE 0

DefaultPayload(T) ==
    CASE T \in {"Int", "Double"} -> 0
      [] T = "Bool" -> FALSE
      [] T = "QString" -> ""
      [] T = "QStringList" -> <<>>
      [] T = "QRect" -> <<0, 0, 0, 0>>
      [] T = iconMapTypeId -> <<>>
      [] OTHER -> "default"

\* qvariant_cast<T>(val): the held value, its conversion, or T() when the
\* conversion is impossible or fails.
qvariant_cast(T, val) ==
    IF val.t = T THEN val.v
    ELSE IF ~canConvert(val.t, T) THEN DefaultPayload(T)
    ELSE CASE T = "Int" /\ val.t = "Bool" -> IF val.v THEN 1 ELSE 0
           [] T = "Int" /\ val.t = "Double" -> val.v
           [] T = "Int" /\ val.t = "QString" -> StrToInt(val.v)
           [] T = "Double" /\ val.t = "Bool" -> IF val.v THEN 1 ELSE 0
           [] T = "Double" /\ val.t = "Int" -> val.v
           [] T = "Double" /\ val.t = "QString" -> StrToInt(val.v)
           [] T = "Bool" /\ val.t \in {"Int", "Double"} -> val.v # 0
           [] T = "Bool" /\ val.t = "QString" -> val.v \notin {"", "0", "false"}
           [] T = "QString" /\ val.t \in {"Int", "Double"} -> Decimal[val.v]
           [] T = "QString" /\ val.t = "Bool" -> IF val.v THEN "true" ELSE "false"
           [] T = "QString" /\ val.t = "QStringList" ->
                  IF Len(val.v) = 1 THEN val.v[1] ELSE ""
           [] T = "QStringList" /\ val.t = "QString" -> <<val.v>>
           [] OTHER -> DefaultPayload(T)

(***************************************************************************)
(* The world record.                                                       *)
(***************************************************************************)
World ==
    [properties |-> properties,
     internals |-> internals,
     propertyToWrappedProperty |-> propertyToWrappedProperty,
     m_propertyToType |-> m_propertyToType,
     m_internalToProperty |-> m_internalToProperty,
     m_creatingProperty |-> m_creatingProperty,
     m_creatingSubProperties |-> m_creatingSubProperties,
     m_destroyingSubProperties |-> m_destroyingSubProperties,
     m_propertyType |-> m_propertyType,
     m_typeToPropertyManager |-> m_typeToPropertyManager,
     m_typeToValueType |-> m_typeToValueType,
     m_typeToAttributeToAttributeType |-> m_typeToAttributeToAttributeType,
     alive |-> alive,
     m_managers |-> m_managers,
     widgets |-> widgets,
     controls |-> controls,
     emitted |-> <<>>,
     calls |-> <<>>,
     received |-> <<>>,
     ret |-> NULL,
     shifted |-> FALSE]

(***************************************************************************)
(* The internal managers' side: which of their signals the constructor     *)
(* connects, and what a freshly added internal property looks like.        *)
(***************************************************************************)
IsTop(mgr) == mgr.cls = ManagerClass(mgr.top)

\* connect(<manager>, &<Manager>::<sig>, this, ...) in the constructor.
Connected(mgr, sig) ==
    LET key == <<mgr.top, mgr.cls>> IN
    CASE sig = "valueChanged" ->
            \/ IsTop(mgr) /\ mgr.top # groupTypeId
            \/ key \in {<<"QLocale", "QtEnumPropertyManager">>,
                        <<"QPoint", "QtIntPropertyManager">>,
                        <<"QPointF", "QtDoublePropertyManager">>,
                        <<"QSize", "QtIntPropertyManager">>,
                        <<"QSizeF", "QtDoublePropertyManager">>,
                        <<"QRect", "QtIntPropertyManager">>,
                        <<"QRectF", "QtDoublePropertyManager">>,
                        <<"QColor", "QtIntPropertyManager">>,
                        <<"QSizePolicy", "QtIntPropertyManager">>,
                        <<"QSizePolicy", "QtEnumPropertyManager">>,
                        <<"QFont", "QtIntPropertyManager">>,
                        <<"QFont", "QtEnumPropertyManager">>,
                        <<"QFont", "QtBoolPropertyManager">>,
                        <<flagTypeId, "QtBoolPropertyManager">>}
      [] sig = "rangeChanged" ->
            \/ IsTop(mgr) /\ mgr.top \in {"Int", "Double", "QDate", "QSize", "QSizeF"}
            \/ key \in {<<"QSize", "QtIntPropertyManager">>,
                        <<"QSizeF", "QtDoublePropertyManager">>,
                        <<"QRect", "QtIntPropertyManager">>,
                        <<"QRectF", "QtDoublePropertyManager">>,
                        <<"QSizePolicy", "QtIntPropertyManager">>,
                        <<"QFont", "QtIntPropertyManager">>}
      [] sig = "singleStepChanged" -> IsTop(mgr) /\ mgr.top \in {"Int", "Double"}
      [] sig = "decimalsChanged" -> IsTop(mgr) /\ mgr.top \in {"Double", "QPointF"}
      [] sig = "regExpChanged" -> IsTop(mgr) /\ mgr.top = "QString"
      [] sig = "constraintChanged" -> IsTop(mgr) /\ mgr.top \in {"QRect", "QRectF"}
      [] sig = "enumNamesChanged" ->
            \/ IsTop(mgr) /\ mgr.top = enumTypeId
            \/ key \in {<<"QSizePolicy", "QtEnumPropertyManager">>,
                        <<"QFont", "QtEnumPropertyManager">>}
      [] sig = "enumIconsChanged" -> IsTop(mgr) /\ mgr.top = enumTypeId
      [] sig = "flagNamesChanged" -> IsTop(mgr) /\ mgr.top = flagTypeId
      [] sig \in {"propertyInserted", "propertyRemoved"} ->
            IsTop(mgr) /\ mgr.top \in {"QLocale", "QPoint", "QPointF", "QSize", "QSizeF",
                                       "QRect", "QRectF", "QColor", "QSizePolicy",
                                       "QFont", flagTypeId}
      [] OTHER -> FALSE

\* The classes of the sub-properties a composite manager gives a new property.
SubPropertyClasses(cls) ==
    CASE cls = "QtLocalePropertyManager" ->
            <<"QtEnumPropertyManager", "QtEnumPropertyManager">>
      [] cls = "QtPointPropertyManager" -> <<"QtIntPropertyManager", "QtIntPropertyManager">>
      [] cls = "QtPointFPropertyManager" ->
            <<"QtDoublePropertyManager", "QtDoublePropertyManager">>
      [] cls = "QtSizePropertyManager" -> <<"QtIntPropertyManager", "QtIntPropertyManager">>
      [] cls = "QtSizeFPropertyManager" ->
            <<"QtDoublePropertyManager", "QtDoublePropertyManager">>
      [] cls = "QtRectPropertyManager" ->
            <<"QtIntPropertyManager", "QtIntPropertyManager",
              "QtIntPropertyManager", "QtIntPropertyManager">>
      [] cls = "QtRectFPropertyManager" ->
            <<"QtDoublePropertyManager", "QtDoublePropertyManager",
              "QtDoublePropertyManager", "QtDoublePropertyManager">>
      [] cls = "QtColorPropertyManager" ->
            <<"QtIntPropertyManager", "QtIntPropertyManager",
              "QtIntPropertyManager", "QtIntPropertyManager">>
      [] cls = "QtSizePolicyPropertyManager" ->
            <<"QtEnumPropertyManager", "QtEnumPropertyManager",
              "QtIntPropertyManager", "QtIntPropertyManager">>
      [] cls = "QtFontPropertyManager" ->
            <<"QtEnumPropertyManager", "QtIntPropertyManager", "QtBoolPropertyManager",
              "QtBoolPropertyManager", "QtBoolPropertyManager", "QtBoolPropertyManager",
              "QtBoolPropertyManager">>
      [] OTHER -> <<>>

\* The boxed type of the value a manager of class cls stores.
BoxType(cls) ==
    CASE cls \in {"QtIntPropertyManager", "QtEnumPropertyManager",
                  "QtFlagPropertyManager"} -> "Int"
      [] cls = "QtGroupPropertyManager" -> UnknownType
      [] OTHER -> CHOOSE t \in ConcreteTypes : ManagerClass(t) = cls

DefaultValue(cls) ==
    CASE cls = "QtEnumPropertyManager" -> IntV(-1)
      [] cls = "QtGroupPropertyManager" -> Invalid
      [] OTHER -> [t |-> BoxType(cls), v |-> DefaultPayload(BoxType(cls))]

DefaultAttributes(cls) ==
    CASE cls \in {"QtIntPropertyManager", "QtDoublePropertyManager"} ->
            LET T == BoxType(cls) IN
            (m_minimumAttribute :> [t |-> T, v |-> INT_MIN])
            @@ (m_maximumAttribute :> [t |-> T, v |-> INT_MAX])
            @@ (m_singleStepAttribute :> [t |-> T, v |-> 1])
            @@ (m_decimalsAttribute :> IntV(2))
      [] cls \in {"QtPointFPropertyManager", "QtSizeFPropertyManager",
                  "QtRectFPropertyManager"} ->
            LET T == BoxType(cls) IN
            (m_minimumAttribute :> [t |-> T, v |-> DefaultPayload(T)])
            @@ (m_maximumAttribute :> [t |-> T, v |-> DefaultPayload(T)])
            @@ (m_constraintAttribute :> [t |-> T, v |-> DefaultPayload(T)])
            @@ (m_decimalsAttribute :> IntV(2))
      [] cls \in {"QtDatePropertyManager", "QtSizePropertyManager",
                  "QtRectPropertyManager"} ->
            LET T == BoxType(cls) IN
            (m_minimumAttribute :> [t |-> T, v |-> DefaultPayload(T)])
            @@ (m_maximumAttribute :> [t |-> T, v |-> DefaultPayload(T)])
            @@ (m_constraintAttribute :> [t |-> T, v |-> DefaultPayload(T)])
      [] cls = "QtStringPropertyManager" ->
            (m_regExpAttribute :> [t |-> "QRegularExpression",
                                   v |-> DefaultPayload("QRegularExpression")])
      [] cls = "QtEnumPropertyManager" ->
            (m_enumNamesAttribute :> StrListV(<<>>))
            @@ (m_enumIconsAttribute :> [t |-> iconMapTypeId, v |-> <<>>])
      [] cls = "QtFlagPropertyManager" -> (m_flagNamesAttribute :> StrListV(<<>>))
      [] OTHER -> EmptyMap

\* A fresh internal property of manager mgr, which Bridge b owns.  `sub` is
\* QtProperty's list of sub-properties; `slots` is the manager's own record of
\* the sub-properties it created, a destroyed one being replaced by null.
NewInternal(mgr, b) ==
    [st |-> "live", mgr |-> mgr, b |-> b, name |-> "", parent |-> NULL, sub |-> <<>>,
     slots |-> <<>>, val |-> DefaultValue(mgr.cls), attr |-> DefaultAttributes(mgr.cls),
     deleted |-> 0]

\* The states of a facade's life, in order.
Lifecycle == <<"uninitialized", "initializing", "live", "uninitializing", "destroyed">>

\* new QtVariantProperty(this); `wrapper` tells whether it was created while
\* the Bridge was wrapping an internal sub-property, `life` lists the states
\* the facade has entered: initializing when initializeProperty is entered
\* for it and live when that returns, uninitializing when
\* uninitializeProperty starts to take its entries down, destroyed at the
\* end of its destructor.
NewFacade(b, wrapper) ==
    [st |-> "live", manager |-> b, name |-> "", parent |-> NULL, sub |-> <<>>,
     wrapper |-> wrapper, deleted |-> 0, life |-> <<Lifecycle[1]>>]

\* Facade p enters the k-th state of the life cycle.
Enters(W, p, k) == [W EXCEPT !.properties[p].life = Append(@, Lifecycle[k])]

\* QtProperty::insertSubProperty's list update: after `after`, first when
\* `after` is null or no child.
InsertAfter(sub, child, after) ==
    IF SeqIndex(sub, child) # 0 THEN sub
    ELSE SeqInsertAt(sub, SeqIndex(sub, after), child)

(***************************************************************************)
(* Read accessors of the Bridge.                                           *)
(***************************************************************************)
\* The internal managers value() dispatches to: all but the group manager.
ValueManagerClasses ==
    {ManagerClass(t) : t \in ConcreteTypes \cup {enumTypeId, flagTypeId}}

\* The attribute getters / setters the dispatch reaches, per manager class.
DispatchedAttributes(cls) ==
    CASE cls = "QtIntPropertyManager" ->
            {m_maximumAttribute, m_minimumAttribute, m_singleStepAttribute}
      [] cls = "QtDoublePropertyManager" ->
            {m_maximumAttribute, m_minimumAttribute, m_singleStepAttribute,
             m_decimalsAttribute}
      [] cls = "QtStringPropertyManager" -> {m_regExpAttribute}
      [] cls = "QtDatePropertyManager" -> {m_maximumAttribute, m_minimumAttribute}
      [] cls = "QtPointFPropertyManager" -> {m_decimalsAttribute}
      [] cls = "QtSizePropertyManager" -> {m_maximumAttribute, m_minimumAttribute}
      [] cls = "QtSizeFPropertyManager" ->
            {m_maximumAttribute, m_minimumAttribute, m_decimalsAttribute}
      [] cls = "QtRectPropertyManager" -> {m_constraintAttribute}
      [] cls = "QtRectFPropertyManager" -> {m_constraintAttribute, m_decimalsAttribute}
      [] cls = "QtEnumPropertyManager" -> {m_enumNamesAttribute, m_enumIconsAttribute}
      [] cls = "QtFlagPropertyManager" -> {m_flagNamesAttribute}
      [] OTHER -> {}

\* A variant of isPropertyTypeSupported that accepts every type id.
isPropertyTypeSupported_always(W, b, propType) == TRUE

isPropertyTypeSupported(W, b, propType) ==
    propType \in DOMAIN W.m_typeToValueType[b]

variantProperty(W, b, property) ==
    IF property \in DOMAIN W.m_propertyToType[b]
    THEN W.m_propertyToType[b][property].first
    ELSE NULL

propertyType(W, b, property) ==
    IF property \in DOMAIN W.m_propertyToType[b]
    THEN W.m_propertyToType[b][property].second
    ELSE UnknownType

\* valueType(int propertyType)
valueTypeOfType(W, b, propType) ==
    IF propType \in DOMAIN W.m_typeToValueType[b]
    THEN W.m_typeToValueType[b][propType]
    ELSE UnknownType

\* A variant of valueType_call that indexes the map without asking first
\* whether it contains the type id.
valueType_call_unguarded(W, b, propType) ==
    LET QMap_index(map, k) == IF k \in DOMAIN map THEN map ELSE Put(map, k, UnknownType)
    IN [W EXCEPT !.m_typeToValueType[b] = QMap_index(@, propType)]

\* The world after valueType(int propertyType): the map is indexed with
\* operator[] when it contains the type id.  QMap::operator[] on a map that
\* is not const inserts a key the map does not hold, with a
\* default-constructed value.
valueType_call(W, b, propType) ==
    LET QMap_index(map, k) == IF k \in DOMAIN map THEN map ELSE Put(map, k, UnknownType)
    IN IF propType \in DOMAIN W.m_typeToValueType[b]
       THEN [W EXCEPT !.m_typeToValueType[b] = QMap_index(@, propType)]
       ELSE W

\* valueType(const QtProperty *property)
valueType(W, b, property) == valueTypeOfType(W, b, propertyType(W, b, property))

attributes(W, b, propType) ==
    IF propType \in DOMAIN W.m_typeToAttributeToAttributeType[b]
    THEN DOMAIN W.m_typeToAttributeToAttributeType[b][propType]
    ELSE {}

\* A variant of attributeType that answers the type's value type for a name
\* that is no attribute of the type.
attributeType_valueType(W, b, propType, attribute) ==
    IF propType \notin DOMAIN W.m_typeToAttributeToAttributeType[b] THEN UnknownType
    ELSE Lookup(W.m_typeToAttributeToAttributeType[b][propType], attribute,
                valueTypeOfType(W, b, propType))

attributeType(W, b, propType, attribute) ==
    IF propType \notin DOMAIN W.m_typeToAttributeToAttributeType[b] THEN UnknownType
    ELSE Lookup(W.m_typeToAttributeToAttributeType[b][propType], attribute, UnknownType)

\* propertyToWrappedProperty()->value(property, nullptr)
wrappedProperty(W, property) == Lookup(W.propertyToWrappedProperty, property, NULL)

\* A variant of value that answers a default value of the property's value
\* type when the property has no internal counterpart.
value_defaulted(W, b, property) ==
    LET internProp == wrappedProperty(W, property) IN
    IF internProp = NULL THEN [t |-> valueType(W, b, property), v |-> 0]
    ELSE IF W.internals[internProp].mgr.cls \in ValueManagerClasses
         THEN W.internals[internProp].val
         ELSE Invalid

value(W, b, property) ==
    LET internProp == wrappedProperty(W, property) IN
    IF internProp = NULL THEN Invalid
    ELSE IF W.internals[internProp].mgr.cls \in ValueManagerClasses
         THEN W.internals[internProp].val
         ELSE Invalid

attributeValue(W, b, property, attribute) ==
    LET propType == propertyType(W, b, property)
        internProp == wrappedProperty(W, property)
    IN
    IF propType = UnknownType THEN Invalid
    ELSE IF propType \notin DOMAIN W.m_typeToAttributeToAttributeType[b] THEN Invalid
    ELSE IF attribute \notin DOMAIN W.m_typeToAttributeToAttributeType[b][propType]
         THEN Invalid
    ELSE IF internProp = NULL THEN Invalid
    ELSE IF attribute \in DispatchedAttributes(W.internals[internProp].mgr.cls)
         THEN W.internals[internProp].attr[attribute]
         ELSE Invalid

\* A variant of hasValue that asks whether the property's type has a value
\* type.
hasValue_byValueType(W, b, property) == valueType(W, b, property) # UnknownType

hasValue(W, b, property) == propertyType(W, b, property) # groupTypeId

\* A variant of internalPropertyToType that also takes a string manager's
\* property for a QString.
internalPropertyToType_strings(W, property) ==
    LET cls == W.internals[property].mgr.cls IN
    CASE cls = "QtIntPropertyManager" -> "Int"
      [] cls = "QtEnumPropertyManager" -> enumTypeId
      [] cls = "QtBoolPropertyManager" -> "Bool"
      [] cls = "QtDoublePropertyManager" -> "Double"
      [] cls = "QtStringPropertyManager" -> "QString"
      [] OTHER -> UnknownType

internalPropertyToType(W, property) ==
    LET cls == W.internals[property].mgr.cls IN
    CASE cls = "QtIntPropertyManager" -> "Int"
      [] cls = "QtEnumPropertyManager" -> enumTypeId
      [] cls = "QtBoolPropertyManager" -> "Bool"
      [] cls = "QtDoublePropertyManager" -> "Double"
      [] OTHER -> UnknownType

(***************************************************************************)
(* The signal and call logs.                                               *)
(***************************************************************************)
\* Whether facade p has a non-null internal counterpart installed.
Mapped(W, p) ==
    /\ p \in DOMAIN W.propertyToWrappedProperty
    /\ W.propertyToWrappedProperty[p] # NULL

\* One emitted signal of Bridge b, with what a handler sees at that moment:
\* whether p has its internal counterpart, whether b is inside addProperty
\* or inside removeSubProperty's window, and what valueType(p) and value(p)
\* return; `slot` is the number of
\* internal signals received so far, the last of them being the one whose
\* slot emits.
Signal(W, b, sig, p, a, v, parent, after) ==
    [b |-> b, sig |-> sig, p |-> p, a |-> a, v |-> v, parent |-> parent,
     after |-> after, mapped |-> Mapped(W, p), creating |-> W.m_creatingProperty[b],
     slot |-> Len(W.received), valueType |-> valueType(W, b, p),
     value |-> value(W, b, p), destroying |-> W.m_destroyingSubProperties[b]]

\* emit <Bridge b>.sig(p, a, v): valueChanged, attributeChanged,
\* propertyChanged, propertyDestroyed.
Emit(W, b, sig, p, a, v) ==
    [W EXCEPT !.emitted = Append(@, Signal(W, b, sig, p, a, v, NULL, NULL))]

\* emit <Bridge b>.sig(p, parent, after): propertyInserted, propertyRemoved.
EmitTree(W, b, sig, p, parent, after) ==
    [W EXCEPT !.emitted = Append(@, Signal(W, b, sig, p, "", Invalid, parent, after))]

\* A slot of Bridge b runs for signal sig of internal property i, which the
\* internal->facade map of b gives facade f for (null when it has none); for
\* propertyInserted f is the facade the map gives for the parent of i;
\* `creating` tells whether b is inside addProperty.
Received(W, b, sig, i, f) ==
    [W EXCEPT !.received = Append(@, [b |-> b, sig |-> sig, i |-> i, f |-> f,
                                      creating |-> W.m_creatingProperty[b]])]

\* A call of an internal manager's setter fn on internal property i, or
\* `delete i` (fn = "delete").
Called(W, fn, i) == [W EXCEPT !.calls = Append(@, [fn |-> fn, i |-> i])]

(***************************************************************************)
(* Creation.  A client slot connected to the Bridge's propertyChanged runs *)
(* synchronously inside the emission; `h` is what that slot does: nothing, *)
(* a call of addProperty(type, name) on the same Bridge, or a call of the  *)
(* inherited addProperty(name) on it.                                      *)
(***************************************************************************)
NoHook == [kind |-> "none", t |-> UnknownType]

AddHook(t) == [kind |-> "addProperty", t |-> t]

InheritedAddHook == [kind |-> "addProperty(name)", t |-> UnknownType]

\* A client slot that gives the Bridge's first flag facade the flag names
\* (Top).
FlagNamesHook == [kind |-> "setAttribute", t |-> flagTypeId]

\* The names a composite manager gives the sub-properties it creates.
SubPropertyNames(cls) ==
    CASE cls \in {"QtRectPropertyManager", "QtRectFPropertyManager"} ->
            <<"X", "Y", "Width", "Height">>
      [] cls \in {"QtPointPropertyManager", "QtPointFPropertyManager"} -> <<"X", "Y">>
      [] cls \in {"QtSizePropertyManager", "QtSizeFPropertyManager"} ->
            <<"Width", "Height">>
      [] cls = "QtColorPropertyManager" -> <<"Red", "Green", "Blue", "Alpha">>
      [] cls = "QtLocalePropertyManager" -> <<"Language", "Territory">>
      [] cls = "QtSizePolicyPropertyManager" ->
            <<"Horizontal Policy", "Vertical Policy", "Horizontal Stretch",
              "Vertical Stretch">>
      [] cls = "QtFontPropertyManager" ->
            <<"Family", "Point Size", "Bold", "Italic", "Underline", "Strikeout",
              "Kerning">>
      [] OTHER -> <<>>

RECURSIVE addProperty(_, _, _, _, _)
RECURSIVE QtAbstractPropertyManager_addProperty(_, _, _, _)
RECURSIVE initializeProperty(_, _, _)
RECURSIVE WrapChildren(_, _, _, _, _, _)
RECURSIVE createSubProperty(_, _, _, _, _)
RECURSIVE slotPropertyInserted(_, _, _, _, _)
RECURSIVE Manager_addProperty(_, _, _)
RECURSIVE AddSubProperties(_, _, _, _)
RECURSIVE Manager_addSubProperty(_, _, _, _)
RECURSIVE RunHook(_, _, _)
RECURSIVE setAttribute(_, _, _, _, _)
RECURSIVE Facade_delete(_, _)
RECURSIVE Internal_delete(_, _)
RECURSIVE DeleteSubProperties(_, _, _)
RECURSIVE uninitializeProperty(_, _, _)
RECURSIVE slotPropertyRemoved(_, _, _, _)
RECURSIVE removeSubProperty(_, _, _)
RECURSIVE Manager_attributeChanged(_, _, _)

\* A variant of createProperty that records no pending type.
createProperty_untyped(W, b) ==
    IF ~W.m_creatingProperty[b] THEN [W EXCEPT !.ret = NULL]
    ELSE LET property == Len(W.properties) + 1 IN
         [W EXCEPT !.properties = Append(@, NewFacade(b, W.m_creatingSubProperties[b])),
                   !.m_propertyToType[b] =
                       Put(@, property, [first |-> property, second |-> UnknownType]),
                   !.ret = property]

createProperty(W, b) ==
    IF ~W.m_creatingProperty[b] THEN [W EXCEPT !.ret = NULL]
    ELSE LET property == Len(W.properties) + 1 IN
         [W EXCEPT !.properties = Append(@, NewFacade(b, W.m_creatingSubProperties[b])),
                   !.m_propertyToType[b] =
                       Put(@, property, [first |-> property,
                                         second |-> W.m_propertyType[b]]),
                   !.ret = property]

\* The client slot connected to Bridge b's propertyChanged.
RunHook(W, b, h) ==
    LET Returned(R) == Called(R, "addProperty(name)", R.ret) IN
    IF h.kind = "addProperty" THEN addProperty(W, b, h.t, "", NoHook)
    ELSE IF h.kind = "addProperty(name)"
         THEN Returned(QtAbstractPropertyManager_addProperty(W, b, "", NoHook))
    ELSE IF h.kind = "setAttribute"
         THEN LET flags == {q \in 1..Len(W.properties) :
                               /\ W.properties[q].st = "live"
                               /\ propertyType(W, b, q) = h.t
                               /\ wrappedProperty(W, q) # NULL}
              IN IF flags = {} THEN W
                 ELSE setAttribute(W, b, CHOOSE q \in flags : \A r \in flags : q <= r,
                                   m_flagNamesAttribute, StrListV(<<"Top">>))
         ELSE W

\* QtProperty::setPropertyName on a facade: the manager emits
\* propertyChanged when the name changes.
Facade_setPropertyName(W, b, property, name, h) ==
    IF W.properties[property].name = name THEN W
    ELSE RunHook(Emit([W EXCEPT !.properties[property].name = name],
                      b, "propertyChanged", property, "", Invalid),
                 b, h)

\* QtProperty::insertSubProperty on a facade: after `after`, first when it is
\* null; the parent's manager (the Bridge) emits propertyInserted.
Facade_insertSubProperty(W, b, parent, property, after) ==
    IF property = NULL \/ property = parent THEN W
    ELSE IF SeqIndex(W.properties[parent].sub, property) # 0 THEN W
    ELSE LET properAfter == IF SeqIndex(W.properties[parent].sub, after) # 0
                            THEN after ELSE NULL
         IN EmitTree([W EXCEPT !.properties[parent].sub = InsertAfter(@, property, after),
                               !.properties[property].parent = parent],
                     b, "propertyInserted", property, parent, properAfter)

\* QtAbstractPropertyManager::addProperty(name): createProperty, name the
\* property, register it, initializeProperty.
QtAbstractPropertyManager_addProperty(W, b, name, h) ==
    LET r == createProperty(W, b) IN
    IF r.ret = NULL THEN r
    ELSE [initializeProperty(Facade_setPropertyName(r, b, r.ret, name, h), b, r.ret)
             EXCEPT !.ret = r.ret]

\* The world a callee returns is consumed through the parameter R of a local
\* operator, here and below.
addProperty(W, b, propType, name, h) ==
    IF ~isPropertyTypeSupported(W, b, propType) THEN [W EXCEPT !.ret = NULL]
    ELSE LET wasCreating == W.m_creatingProperty[b]
             Return(R) ==
                 [R EXCEPT !.m_creatingProperty[b] = wasCreating,
                           !.m_propertyType[b] = UnknownType,
                           !.ret = IF R.ret = NULL THEN NULL
                                   ELSE variantProperty(R, b, R.ret)]
         IN Return(QtAbstractPropertyManager_addProperty(
                       [W EXCEPT !.m_creatingProperty[b] = TRUE,
                                 !.m_propertyType[b] = propType],
                       b, name, h))

\* A variant of createSubProperty that puts the new facade first among the
\* parent's children whatever `after` is.
createSubProperty_first(W, b, parent, after, internal) ==
    LET type == internalPropertyToType(W, internal) IN
    IF type = UnknownType THEN [W EXCEPT !.ret = NULL]
    ELSE LET wasCreatingSubProperties == W.m_creatingSubProperties[b]
             Wrapped(R) ==
                 LET varChild == R.ret
                     W2 == [R EXCEPT !.m_creatingSubProperties[b] =
                                         wasCreatingSubProperties]
                 IN [Facade_insertSubProperty(
                         Facade_setPropertyName(W2, b, varChild,
                                                W.internals[internal].name, NoHook),
                         b, parent, varChild, NULL)
                        EXCEPT !.m_internalToProperty[b] = Put(@, internal, varChild),
                               !.propertyToWrappedProperty = Put(@, varChild, internal),
                               !.ret = varChild]
         IN Wrapped(addProperty([W EXCEPT !.m_creatingSubProperties[b] = TRUE],
                                b, type, W.internals[internal].name, NoHook))

createSubProperty(W, b, parent, after, internal) ==
    LET type == internalPropertyToType(W, internal) IN
    IF type = UnknownType THEN [W EXCEPT !.ret = NULL]
    ELSE LET wasCreatingSubProperties == W.m_creatingSubProperties[b]
             Wrapped(R) ==
                 LET varChild == R.ret
                     W2 == [R EXCEPT !.m_creatingSubProperties[b] =
                                         wasCreatingSubProperties]
                 IN [Facade_insertSubProperty(
                         Facade_setPropertyName(W2, b, varChild,
                                                W.internals[internal].name, NoHook),
                         b, parent, varChild, after)
                        EXCEPT !.m_internalToProperty[b] = Put(@, internal, varChild),
                               !.propertyToWrappedProperty = Put(@, varChild, internal),
                               !.ret = varChild]
         IN Wrapped(addProperty([W EXCEPT !.m_creatingSubProperties[b] = TRUE],
                                b, type, W.internals[internal].name, NoHook))

slotPropertyInserted(W, b, property, parent, after) ==
    LET varParent == Lookup(W.m_internalToProperty[b], parent, NULL)
        varAfter == IF after # NULL
                    THEN Lookup(W.m_internalToProperty[b], after, NULL)
                    ELSE NULL
        W1 == Received(W, b, "propertyInserted", property, varParent)
    IN IF W.m_creatingProperty[b] THEN W1
       ELSE IF varParent = NULL THEN W1
       ELSE IF after # NULL /\ varAfter = NULL THEN W1
       ELSE createSubProperty(W1, b, varParent, varAfter, property)

\* The loop of initializeProperty over the internal property's children.
WrapChildren(W, b, varProp, children, k, lastProperty) ==
    IF k > Len(children) THEN W
    ELSE LET Rest(R) ==
                 WrapChildren(R, b, varProp, children, k + 1,
                              IF R.ret # NULL THEN R.ret ELSE lastProperty)
         IN Rest(createSubProperty(W, b, varProp, lastProperty, children[k]))

initializeProperty(W, b, property) ==
    LET varProp == variantProperty(W, b, property)
        W0 == Enters(W, property, 2)
        Done(R) == Enters(R, property, 3)
    IN
    IF varProp = NULL THEN W
    ELSE IF W.m_propertyType[b] \notin DOMAIN W.m_typeToPropertyManager[b] THEN Done(W0)
    ELSE LET manager == W.m_typeToPropertyManager[b][W.m_propertyType[b]]
             Wrap(R) ==
                 LET internProp == R.ret
                     W2 == [R EXCEPT !.m_internalToProperty[b] =
                                         Put(@, internProp, varProp),
                                     !.propertyToWrappedProperty =
                                         Put(@, varProp, internProp)]
                 IN Done(WrapChildren(W2, b, varProp, W2.internals[internProp].sub,
                                      1, NULL))
         IN IF ~W.m_creatingSubProperties[b]
            THEN Wrap(Manager_addProperty(W0, b, manager))
            ELSE Done([W0 EXCEPT !.propertyToWrappedProperty = Put(@, varProp, NULL)])

(***************************************************************************)
(* The internal managers: allocation of an internal property with the      *)
(* sub-properties its manager pre-populates, and the propertyInserted      *)
(* signal each insertion sends to the Bridge.                              *)
(***************************************************************************)
\* QtProperty::addSubProperty on an internal property: append, and the
\* parent's manager emits propertyInserted(child, parent, previous last).
Manager_addSubProperty(W, b, parent, child) ==
    LET sub == W.internals[parent].sub
        after == IF Len(sub) > 0 THEN sub[Len(sub)] ELSE NULL
        W1 == [W EXCEPT !.internals[parent].sub = Append(@, child),
                        !.internals[parent].slots = Append(@, child),
                        !.internals[child].parent = parent]
    IN IF Connected(W.internals[parent].mgr, "propertyInserted") /\ W.alive[b]
       THEN slotPropertyInserted(W1, b, child, parent, after)
       ELSE W1

\* The k-th and later sub-properties of a new internal property i.  Width
\* and height of a rectangle or size get minimum 0, which their manager
\* signals, before they are added to i.
AddSubProperties(W, b, i, k) ==
    LET mgr == W.internals[i].mgr
        classes == SubPropertyClasses(mgr.cls)
        child == Len(W.internals) + 1
        fresh == [NewInternal(SubManager(mgr.top, classes[k]), b) EXCEPT
                     !.name = SubPropertyNames(mgr.cls)[k]]
        sized == IF SubPropertyNames(mgr.cls)[k] \in {"Width", "Height"}
                 THEN [fresh EXCEPT !.attr[m_minimumAttribute].v = 0]
                 ELSE fresh
        W1 == [W EXCEPT !.internals = Append(@, sized)]
    IN IF k > Len(classes) THEN W
       ELSE AddSubProperties(
                Manager_addSubProperty(
                    IF sized # fresh
                    THEN Manager_attributeChanged(W1, child, m_minimumAttribute)
                    ELSE W1,
                    b, i, child),
                b, i, k + 1)

\* <manager>->addProperty()
Manager_addProperty(W, b, manager) ==
    LET i == Len(W.internals) + 1 IN
    [AddSubProperties([W EXCEPT !.internals = Append(@, NewInternal(manager, b))],
                      b, i, 1)
        EXCEPT !.ret = i]

(***************************************************************************)
(* Destruction.  uninitializeProperty takes its two QHash iterators before *)
(* it deletes the internal property and erases through them afterwards.    *)
(* Deleting a composite internal property removes the entries of the child *)
(* facades from the same two hashes in between, and a removal from a QHash *)
(* may move other entries to other buckets: the iterator then no longer    *)
(* points at its entry.  W.shifted chooses between the two outcomes: the   *)
(* entry stayed in its bucket and erase removes it, or it was moved and    *)
(* erase does not reach it.                                                *)
(***************************************************************************)
\* QHash::erase(it), `it` obtained by find(k) when the hash was `before`.
EraseAt(before, now, k, shifted) ==
    IF shifted /\ DOMAIN now # DOMAIN before THEN now
    ELSE Remove(now, k)

\* Object o is destroyed: its children lose their parent, its parent loses
\* it.  SubSeq makes the result a sequence like `objects`.
Detach(objects, o) ==
    SubSeq([q \in 1..Len(objects) |->
               IF objects[q].parent = o THEN [objects[q] EXCEPT !.parent = NULL]
               ELSE IF q = objects[o].parent
                    THEN [objects[q] EXCEPT !.sub = SeqRemove(@, o)]
               ELSE IF q = o THEN [objects[q] EXCEPT !.st = "destroyed", !.sub = <<>>,
                                                     !.parent = NULL]
               ELSE objects[q]],
           1, Len(objects))

\* The parent manager's slotPropertyDestroyed: it forgets the destroyed child.
ClearSlot(objects, parent, o) ==
    IF parent = NULL THEN objects
    ELSE [objects EXCEPT ![parent].slots =
             SubSeq([k \in 1..Len(@) |-> IF @[k] = o THEN NULL ELSE @[k]], 1, Len(@))]

\* A variant of uninitializeProperty that deletes the internal property
\* whatever the destroying-sub-properties flag says.
uninitializeProperty_unsuppressed(W, b, property) ==
    IF property \notin DOMAIN W.m_propertyToType[b] THEN W
    ELSE LET internProp == wrappedProperty(W, property)
             W0 == Enters(W, property, 4)
             W1 == IF internProp # NULL
                   THEN [W0 EXCEPT !.m_internalToProperty[b] = Remove(@, internProp)]
                   ELSE W0
             W2 == IF internProp # NULL
                   THEN Internal_delete(Called(W1, "delete", internProp), internProp)
                   ELSE W1
             Erased(R) ==
                 [R EXCEPT !.propertyToWrappedProperty = Remove(@, property),
                           !.m_propertyToType[b] = Remove(@, property)]
         IN Erased(W2)

\* A variant of uninitializeProperty that takes the internal->facade entry
\* out only after it has deleted the internal property.
uninitializeProperty_removesLate(W, b, property) ==
    IF property \notin DOMAIN W.m_propertyToType[b] THEN W
    ELSE LET internProp == wrappedProperty(W, property)
             W0 == Enters(W, property, 4)
             W2 == IF internProp # NULL /\ ~W0.m_destroyingSubProperties[b]
                   THEN Internal_delete(Called(W0, "delete", internProp), internProp)
                   ELSE W0
             Erased(R) ==
                 [R EXCEPT !.m_internalToProperty[b] = Remove(@, internProp),
                           !.propertyToWrappedProperty = Remove(@, property),
                           !.m_propertyToType[b] = Remove(@, property)]
         IN Erased(W2)

uninitializeProperty(W, b, property) ==
    IF property \notin DOMAIN W.m_propertyToType[b] THEN W
    ELSE LET internProp == wrappedProperty(W, property)
             W0 == Enters(W, property, 4)
             W1 == IF internProp # NULL
                   THEN [W0 EXCEPT !.m_internalToProperty[b] = Remove(@, internProp)]
                   ELSE W0
             W2 == IF internProp # NULL /\ ~W1.m_destroyingSubProperties[b]
                   THEN Internal_delete(Called(W1, "delete", internProp), internProp)
                   ELSE W1
             Erased(R) ==
                 [R EXCEPT !.propertyToWrappedProperty =
                               IF property \in DOMAIN W.propertyToWrappedProperty
                               THEN EraseAt(W.propertyToWrappedProperty, @, property,
                                            W.shifted)
                               ELSE @,
                           !.m_propertyToType[b] =
                               EraseAt(W.m_propertyToType[b], @, property, W.shifted)]
         IN Erased(W2)

\* QtProperty::~QtProperty of a facade: propertyRemoved for its parent, the
\* manager's propertyDestroyed (uninitializeProperty, deregistration), then
\* the links to children and parent are cut.
Facade_delete(W, p) ==
    LET b == W.properties[p].manager
        W0 == [W EXCEPT !.properties[p].deleted = @ + 1]
        W1 == IF W.properties[p].parent # NULL
              THEN EmitTree(W0, b, "propertyRemoved", p, W.properties[p].parent, NULL)
              ELSE W0
        W2 == IF W.properties[p].st = "live"
              THEN uninitializeProperty(
                       Emit(W1, b, "propertyDestroyed", p, "", Invalid), b, p)
              ELSE W1
    IN Enters([W2 EXCEPT !.properties = Detach(@, p)], p, 5)

\* A variant of removeSubProperty that leaves the destroying-sub-properties
\* flag set.
removeSubProperty_keepsFlag(W, b, property) ==
    LET internChild == wrappedProperty(W, property)
        W1 == Facade_delete([W EXCEPT !.m_destroyingSubProperties[b] = TRUE], property)
    IN [W1 EXCEPT !.m_internalToProperty[b] = Remove(@, internChild),
                  !.propertyToWrappedProperty = Remove(@, property)]

removeSubProperty(W, b, property) ==
    LET internChild == wrappedProperty(W, property)
        wasDestroyingSubProperties == W.m_destroyingSubProperties[b]
        W1 == Facade_delete([W EXCEPT !.m_destroyingSubProperties[b] = TRUE], property)
    IN [W1 EXCEPT !.m_destroyingSubProperties[b] = wasDestroyingSubProperties,
                  !.m_internalToProperty[b] = Remove(@, internChild),
                  !.propertyToWrappedProperty = Remove(@, property)]

slotPropertyRemoved(W, b, property, parent) ==
    LET varProperty == Lookup(W.m_internalToProperty[b], property, NULL)
        W1 == Received(W, b, "propertyRemoved", property, varProperty)
    IN IF varProperty = NULL THEN W1 ELSE removeSubProperty(W1, b, varProperty)

\* The owning manager's uninitializeProperty: it deletes the sub-properties
\* it created that still exist.
DeleteSubProperties(W, i, k) ==
    IF k > Len(W.internals[i].slots) THEN W
    ELSE DeleteSubProperties(
             IF W.internals[i].slots[k] # NULL
             THEN Internal_delete(W, W.internals[i].slots[k])
             ELSE W,
             i, k + 1)

\* QtProperty::~QtProperty of an internal property.
Internal_delete(W, i) ==
    LET b == W.internals[i].b
        parent == W.internals[i].parent
        W0 == [W EXCEPT !.internals[i].deleted = @ + 1]
        W1 == IF parent # NULL /\ W.alive[b]
                 /\ Connected(W.internals[parent].mgr, "propertyRemoved")
              THEN slotPropertyRemoved(W0, b, i, parent)
              ELSE W0
        W2 == DeleteSubProperties(W1, i, 1)
    IN [W2 EXCEPT !.internals = ClearSlot(Detach(@, i), parent, i)]

(***************************************************************************)
(* Change propagation: the Bridge's slots for the internal managers'       *)
(* signals.                                                                *)
(***************************************************************************)
\* The signal an internal manager emits when the named attribute changes.
AttributeSignal(attribute) ==
    CASE attribute \in {m_minimumAttribute, m_maximumAttribute} -> "rangeChanged"
      [] attribute = m_singleStepAttribute -> "singleStepChanged"
      [] attribute = m_decimalsAttribute -> "decimalsChanged"
      [] attribute = m_regExpAttribute -> "regExpChanged"
      [] attribute = m_constraintAttribute -> "constraintChanged"
      [] attribute = m_enumNamesAttribute -> "enumNamesChanged"
      [] attribute = m_enumIconsAttribute -> "enumIconsChanged"
      [] attribute = m_flagNamesAttribute -> "flagNamesChanged"
      [] OTHER -> "none"

\* A variant of valueChanged that emits propertyChanged before valueChanged.
valueChanged_changedFirst(W, b, property, val) ==
    LET varProp == Lookup(W.m_internalToProperty[b], property, NULL)
        W1 == Received(W, b, "valueChanged", property, varProp)
    IN IF varProp = NULL THEN W1
       ELSE Emit(Emit(W1, b, "propertyChanged", varProp, "", Invalid),
                 b, "valueChanged", varProp, "", val)

valueChanged(W, b, property, val) ==
    LET varProp == Lookup(W.m_internalToProperty[b], property, NULL)
        W1 == Received(W, b, "valueChanged", property, varProp)
    IN IF varProp = NULL THEN W1
       ELSE Emit(Emit(W1, b, "valueChanged", varProp, "", val),
                 b, "propertyChanged", varProp, "", Invalid)

\* The argument the connected lambda receives and boxes: the flag manager's
\* valueChanged(int) is connected to a lambda taking const QColor &.
SlotValue(mgr, val) ==
    IF mgr.cls = "QtFlagPropertyManager" THEN [t |-> "QColor", v |-> val.v] ELSE val

slotValueChanged(W, b, property, val) == valueChanged(W, b, property, val)

\* A variant of slotRangeChanged that emits without looking at what the
\* internal->facade map gave.
slotRangeChanged_unchecked(W, b, property, min, max) ==
    LET varProp == Lookup(W.m_internalToProperty[b], property, NULL)
        W1 == Received(W, b, "rangeChanged", property, varProp)
    IN Emit(Emit(W1, b, "attributeChanged", varProp, m_minimumAttribute, min),
            b, "attributeChanged", varProp, m_maximumAttribute, max)

slotRangeChanged(W, b, property, min, max) ==
    LET varProp == Lookup(W.m_internalToProperty[b], property, NULL)
        W1 == Received(W, b, "rangeChanged", property, varProp)
    IN IF varProp = NULL THEN W1
       ELSE Emit(Emit(W1, b, "attributeChanged", varProp, m_minimumAttribute, min),
                 b, "attributeChanged", varProp, m_maximumAttribute, max)

\* slotSingleStepChanged, slotDecimalsChanged, slotRegExpChanged,
\* slotConstraintChanged, slotEnumNamesChanged, slotEnumIconsChanged,
\* slotFlagNamesChanged: one attributeChanged for the named attribute.
slotAttributeChanged(W, b, property, attribute, val) ==
    LET varProp == Lookup(W.m_internalToProperty[b], property, NULL)
        W1 == Received(W, b, AttributeSignal(attribute), property, varProp)
    IN IF varProp = NULL THEN W1
       ELSE Emit(W1, b, "attributeChanged", varProp, attribute, val)

\* Internal property i's manager emits the change signal of `attribute`.
Manager_attributeChanged(W, i, attribute) ==
    LET me == W.internals[i] IN
    IF ~(Connected(me.mgr, AttributeSignal(attribute)) /\ W.alive[me.b]) THEN W
    ELSE IF AttributeSignal(attribute) = "rangeChanged"
         THEN slotRangeChanged(W, me.b, i, me.attr[m_minimumAttribute],
                               me.attr[m_maximumAttribute])
         ELSE slotAttributeChanged(W, me.b, i, attribute, me.attr[attribute])

(***************************************************************************)
(* The internal managers' setters.                                         *)
(***************************************************************************)
RECURSIVE Pow2(_)
Pow2(n) == IF n = 0 THEN 1 ELSE 2 * Pow2(n - 1)

Bit(v, k) == (v \div Pow2(k)) % 2 = 1

WithBit(v, k, on) ==
    IF on = Bit(v, k) THEN v
    ELSE IF on THEN v + Pow2(k) ELSE v - Pow2(k)

qBound(min, x, max) == IF x < min THEN min ELSE IF x > max THEN max ELSE x

RECURSIVE Manager_setValue(_, _, _)
RECURSIVE SetSubValues(_, _, _)
RECURSIVE Manager_valueChanged(_, _)

\* The composite value after sub-property k of a composite took value x.
Recomposed(cls, val, k, x) ==
    CASE cls = "QtRectPropertyManager" -> [val EXCEPT ![k] = x]
      [] cls = "QtFlagPropertyManager" -> WithBit(val, k - 1, x)
      [] OTHER -> val

\* What sub-property k of a composite shows for the composite's value.
Component(cls, val, k) ==
    CASE cls = "QtRectPropertyManager" -> val[k]
      [] cls = "QtFlagPropertyManager" -> Bit(val, k - 1)
      [] OTHER -> val

\* Internal property i's manager emits valueChanged: the slot of the
\* composite manager owning i runs first (connected when that manager was
\* constructed), then the Bridge's.
Manager_valueChanged(W, i) ==
    LET me == W.internals[i]
        parent == me.parent
        k == IF parent = NULL THEN 0 ELSE SeqIndex(W.internals[parent].slots, i)
        Notify(R) ==
            IF Connected(me.mgr, "valueChanged") /\ W.alive[me.b]
            THEN slotValueChanged(R, me.b, i, SlotValue(me.mgr, R.internals[i].val))
            ELSE R
    IN Notify(IF k = 0 THEN W
              ELSE Manager_setValue(W, parent,
                       Recomposed(W.internals[parent].mgr.cls,
                                  W.internals[parent].val.v, k, me.val.v)))

SetSubValues(W, i, k) ==
    LET slots == W.internals[i].slots IN
    IF k > Len(slots) THEN W
    ELSE SetSubValues(
             IF slots[k] = NULL THEN W
             ELSE Manager_setValue(W, slots[k],
                      Component(W.internals[i].mgr.cls, W.internals[i].val.v, k)),
             i, k + 1)

\* <manager>->setValue(i, x)
Manager_setValue(W, i, x) ==
    LET me == W.internals[i]
        cls == me.mgr.cls
        names == IF cls = "QtEnumPropertyManager" THEN me.attr[m_enumNamesAttribute].v
                 ELSE IF cls = "QtFlagPropertyManager"
                      THEN me.attr[m_flagNamesAttribute].v
                      ELSE <<>>
        accepted ==
            CASE cls = "QtEnumPropertyManager" ->
                    ~(x >= Len(names)) /\ ~(x < 0 /\ Len(names) > 0)
              [] cls = "QtFlagPropertyManager" -> ~(x > Pow2(Len(names)) - 1) /\ ~(x < 0)
              [] OTHER -> TRUE
        new == CASE cls \in {"QtIntPropertyManager", "QtDoublePropertyManager"} ->
                      qBound(me.attr[m_minimumAttribute].v, x, me.attr[m_maximumAttribute].v)
                 [] cls = "QtEnumPropertyManager" -> IF x < 0 THEN -1 ELSE x
                 [] OTHER -> x
    IN IF ~accepted THEN W
       ELSE IF new = me.val.v THEN W
       ELSE Manager_valueChanged(
                SetSubValues([W EXCEPT !.internals[i].val.v = new], i, 1), i)

RECURSIVE AddFlags(_, _, _, _)
\* setFlagNames' loop: one bool sub-property per flag name.
AddFlags(W, i, names, k) ==
    LET child == Len(W.internals) + 1
        me == W.internals[i]
        fresh == [NewInternal(SubManager(me.mgr.top, "QtBoolPropertyManager"), me.b)
                     EXCEPT !.name = names[k]]
    IN IF k > Len(names) THEN W
       ELSE AddFlags(Manager_addSubProperty([W EXCEPT !.internals = Append(@, fresh)],
                                            me.b, i, child),
                     i, names, k + 1)

\* <manager>->set<Attribute>(i, x)
Manager_setAttribute(W, i, attribute, x) ==
    LET me == W.internals[i]
        cls == me.mgr.cls
        min == me.attr[m_minimumAttribute].v
        max == me.attr[m_maximumAttribute].v
        ranged == cls \in {"QtIntPropertyManager", "QtDoublePropertyManager"}
    IN
    CASE ranged /\ attribute = m_minimumAttribute ->
            IF x = min THEN W
            ELSE LET W1 == [W EXCEPT !.internals[i].attr[m_minimumAttribute].v = x,
                                     !.internals[i].attr[m_maximumAttribute].v =
                                         IF max < x THEN x ELSE max,
                                     !.internals[i].val.v = IF @ < x THEN x ELSE @]
                     W2 == Manager_attributeChanged(W1, i, attribute)
                 IN IF W1.internals[i].val = me.val THEN W2
                    ELSE Manager_valueChanged(W2, i)
      [] ranged /\ attribute = m_maximumAttribute ->
            IF x = max THEN W
            ELSE LET W1 == [W EXCEPT !.internals[i].attr[m_maximumAttribute].v = x,
                                     !.internals[i].attr[m_minimumAttribute].v =
                                         IF min > x THEN x ELSE min,
                                     !.internals[i].val.v = IF @ > x THEN x ELSE @]
                     W2 == Manager_attributeChanged(W1, i, attribute)
                 IN IF W1.internals[i].val = me.val THEN W2
                    ELSE Manager_valueChanged(W2, i)
      [] ranged /\ attribute = m_singleStepAttribute ->
            LET step == IF x < 0 THEN 0 ELSE x IN
            IF step = me.attr[attribute].v THEN W
            ELSE Manager_attributeChanged(
                     [W EXCEPT !.internals[i].attr[attribute].v = step], i, attribute)
      [] cls = "QtEnumPropertyManager" /\ attribute = m_enumNamesAttribute ->
            IF x = me.attr[attribute].v THEN W
            ELSE Manager_valueChanged(
                     Manager_attributeChanged(
                         [W EXCEPT !.internals[i].attr[attribute].v = x,
                                   !.internals[i].val.v = IF Len(x) > 0 THEN 0 ELSE -1],
                         i, attribute),
                     i)
      [] cls = "QtFlagPropertyManager" /\ attribute = m_flagNamesAttribute ->
            IF x = me.attr[attribute].v THEN W
            ELSE LET W1 == DeleteSubProperties(
                               [W EXCEPT !.internals[i].attr[attribute].v = x,
                                         !.internals[i].val.v = 0],
                               i, 1)
                     W2 == AddFlags([W1 EXCEPT !.internals[i].slots = <<>>], i, x, 1)
                 IN Manager_valueChanged(Manager_attributeChanged(W2, i, attribute), i)
      [] OTHER ->
            IF x = me.attr[attribute].v THEN W
            ELSE Manager_attributeChanged(
                     [W EXCEPT !.internals[i].attr[attribute].v = x], i, attribute)

(***************************************************************************)
(* Writes through the Bridge.                                              *)
(***************************************************************************)
\* The type the dispatch casts the new attribute value to.
SetterType(cls, attribute) ==
    CASE attribute = m_decimalsAttribute -> "Int"
      [] attribute = m_regExpAttribute -> "QRegularExpression"
      [] attribute \in {m_enumNamesAttribute, m_flagNamesAttribute} -> "QStringList"
      [] attribute = m_enumIconsAttribute -> iconMapTypeId
      [] OTHER -> BoxType(cls)

SetterName(attribute) ==
    CASE attribute = m_maximumAttribute -> "setMaximum"
      [] attribute = m_minimumAttribute -> "setMinimum"
      [] attribute = m_singleStepAttribute -> "setSingleStep"
      [] attribute = m_decimalsAttribute -> "setDecimals"
      [] attribute = m_regExpAttribute -> "setRegExp"
      [] attribute = m_constraintAttribute -> "setConstraint"
      [] attribute = m_enumNamesAttribute -> "setEnumNames"
      [] attribute = m_enumIconsAttribute -> "setEnumIcons"
      [] attribute = m_flagNamesAttribute -> "setFlagNames"
      [] OTHER -> "none"

\* A variant of setValue without the convertibility gate.
setValue_ungated(W, b, property, val) ==
    LET internProp == wrappedProperty(W, property) IN
    IF internProp = NULL THEN W
    ELSE IF W.internals[internProp].mgr.cls \notin ValueManagerClasses THEN W
    ELSE Manager_setValue(Called(W, "setValue", internProp), internProp,
             qvariant_cast(BoxType(W.internals[internProp].mgr.cls), val))

\* A variant of setValue that accepts only values of exactly the value type.
setValue_exact(W, b, property, val) ==
    LET propType == userType(val)
        valType == valueType(W, b, property)
        internProp == wrappedProperty(W, property)
    IN
    IF propType = UnknownType THEN W
    ELSE IF propType # valType THEN W
    ELSE IF internProp = NULL THEN W
    ELSE IF W.internals[internProp].mgr.cls \notin ValueManagerClasses THEN W
    ELSE Manager_setValue(Called(W, "setValue", internProp), internProp,
             qvariant_cast(BoxType(W.internals[internProp].mgr.cls), val))

\* A variant of setValue that also rejects a string that is no numeral when
\* the value type is numeric.
setValue_numeralsOnly(W, b, property, val) ==
    LET propType == userType(val)
        valType == valueType(W, b, property)
        internProp == wrappedProperty(W, property)
    IN
    IF propType = UnknownType THEN W
    ELSE IF propType # valType /\ ~canConvert(propType, valType) THEN W
    ELSE IF propType = "QString" /\ valType \in NumericTypes
            /\ ~\E n \in DOMAIN Decimal : Decimal[n] = val.v
         THEN W
    ELSE IF internProp = NULL THEN W
    ELSE IF W.internals[internProp].mgr.cls \notin ValueManagerClasses THEN W
    ELSE Manager_setValue(Called(W, "setValue", internProp), internProp,
             qvariant_cast(BoxType(W.internals[internProp].mgr.cls), val))

setValue(W, b, property, val) ==
    LET propType == userType(val)
        valType == valueType(W, b, property)
        internProp == wrappedProperty(W, property)
    IN
    IF propType = UnknownType THEN W
    ELSE IF propType # valType /\ ~canConvert(propType, valType) THEN W
    ELSE IF internProp = NULL THEN W
    ELSE IF W.internals[internProp].mgr.cls \notin ValueManagerClasses THEN W
    ELSE Manager_setValue(Called(W, "setValue", internProp), internProp,
             qvariant_cast(BoxType(W.internals[internProp].mgr.cls), val))

\* A variant of setAttribute that does not look the attribute up first.
setAttribute_unchecked(W, b, property, attribute, val) ==
    LET internProp == wrappedProperty(W, property) IN
    IF userType(val) = UnknownType \/ internProp = NULL THEN W
    ELSE IF attribute \notin DOMAIN W.internals[internProp].attr THEN W
    ELSE Manager_setAttribute(Called(W, SetterName(attribute), internProp),
             internProp, attribute,
             qvariant_cast(SetterType(W.internals[internProp].mgr.cls, attribute), val))

setAttribute(W, b, property, attribute, val) ==
    LET oldAttr == attributeValue(W, b, property, attribute)
        attrType == userType(val)
        internProp == wrappedProperty(W, property)
    IN
    IF ~isValid(oldAttr) THEN W
    ELSE IF attrType = UnknownType THEN W
    ELSE IF attrType # attributeType(W, b, propertyType(W, b, property), attribute)
            /\ ~canConvert(attrType, attrType)
         THEN W
    ELSE IF internProp = NULL THEN W
    ELSE IF attribute \notin DispatchedAttributes(W.internals[internProp].mgr.cls) THEN W
    ELSE Manager_setAttribute(Called(W, SetterName(attribute), internProp),
             internProp, attribute,
             qvariant_cast(SetterType(W.internals[internProp].mgr.cls, attribute), val))

(***************************************************************************)
(* Destruction of a Bridge: clear() deletes the registered facades one by  *)
(* one, in the order the set hands them out; the internal managers, its    *)
(* QObject children, then delete whatever they still own.                  *)
(***************************************************************************)
RECURSIVE clear(_, _, _)
clear(W, order, k) ==
    IF k > Len(order) THEN W
    ELSE clear(IF W.properties[order[k]].st = "live"
               THEN Facade_delete(W, order[k])
               ELSE W,
               order, k + 1)

RECURSIVE DeleteManagers(_, _, _)
DeleteManagers(W, b, i) ==
    IF i > Len(W.internals) THEN W
    ELSE DeleteManagers(IF W.internals[i].b = b /\ W.internals[i].st = "live"
                        THEN Internal_delete(W, i)
                        ELSE W,
                        b, i + 1)

QtVariantPropertyManager_destroy(W, b, order) ==
    DeleteManagers([clear(W, order, 1) EXCEPT !.alive[b] = FALSE], b, 1)

(***************************************************************************)
(* The editor factory (QtVariantEditorFactory).  There is one; m_managers  *)
(* holds, for it (key "q_ptr") and for each of the editor factories it     *)
(* owns, the managers added with addPropertyManager.  A manager is the     *)
(* record [b, top, cls]: the Bridge, the type id it (or the manager that   *)
(* owns it) is registered for, and its class; for a Bridge itself top is   *)
(* UnknownType and cls "QtVariantPropertyManager".                         *)
(***************************************************************************)

\* m_typeToFactory as the constructor fills it; nothing changes it later.
TypeToFactoryInit ==
    ("Int" :> "m_spinBoxFactory") @@ ("Double" :> "m_doubleSpinBoxFactory")
    @@ ("Bool" :> "m_checkBoxFactory") @@ ("QString" :> "m_lineEditFactory")
    @@ ("QDate" :> "m_dateEditFactory") @@ ("QTime" :> "m_timeEditFactory")
    @@ ("QDateTime" :> "m_dateTimeEditFactory")
    @@ ("QKeySequence" :> "m_keySequenceEditorFactory")
    @@ ("QChar" :> "m_charEditorFactory") @@ ("QCursor" :> "m_cursorEditorFactory")
    @@ ("QColor" :> "m_colorEditorFactory") @@ ("QFont" :> "m_fontEditorFactory")
    @@ (enumTypeId :> "m_comboBoxFactory")

\* manager->findChildren<cls *>(): the search is recursive, so it finds the
\* managers the constructor made children of the Bridge and the sub-managers
\* these create as their own children.
findChildren(W, b, cls) ==
    LET SubManagerClasses(c) ==
            {SubPropertyClasses(c)[k] : k \in 1..Len(SubPropertyClasses(c))}
            \cup (IF c = "QtFlagPropertyManager" THEN {"QtBoolPropertyManager"} ELSE {})
        registered == DOMAIN W.m_typeToPropertyManager[b]
    IN {[b |-> b, top |-> t, cls |-> cls] :
           t \in {u \in registered : W.m_typeToPropertyManager[b][u].cls = cls}}
       \cup {[b |-> b, top |-> t, cls |-> cls] :
                t \in {u \in registered : cls \in SubManagerClasses(ManagerClass(u))}}

\* The loops of connectPropertyManager, in order: the class searched for,
\* the factory, and the accessor applied to each manager found ("" for the
\* manager itself, else the class of the sub-manager the accessor returns).
ConnectSteps ==
    <<<<"QtIntPropertyManager", "m_spinBoxFactory", "">>,
      <<"QtDoublePropertyManager", "m_doubleSpinBoxFactory", "">>,
      <<"QtBoolPropertyManager", "m_checkBoxFactory", "">>,
      <<"QtStringPropertyManager", "m_lineEditFactory", "">>,
      <<"QtDatePropertyManager", "m_dateEditFactory", "">>,
      <<"QtTimePropertyManager", "m_timeEditFactory", "">>,
      <<"QtDateTimePropertyManager", "m_dateTimeEditFactory", "">>,
      <<"QtKeySequencePropertyManager", "m_keySequenceEditorFactory", "">>,
      <<"QtCharPropertyManager", "m_charEditorFactory", "">>,
      <<"QtLocalePropertyManager", "m_comboBoxFactory", "QtEnumPropertyManager">>,
      <<"QtPointPropertyManager", "m_spinBoxFactory", "QtIntPropertyManager">>,
      <<"QtPointFPropertyManager", "m_doubleSpinBoxFactory", "QtDoublePropertyManager">>,
      <<"QtSizePropertyManager", "m_spinBoxFactory", "QtIntPropertyManager">>,
      <<"QtSizeFPropertyManager", "m_doubleSpinBoxFactory", "QtDoublePropertyManager">>,
      <<"QtRectPropertyManager", "m_spinBoxFactory", "QtIntPropertyManager">>,
      <<"QtRectFPropertyManager", "m_doubleSpinBoxFactory", "QtDoublePropertyManager">>,
      <<"QtColorPropertyManager", "m_colorEditorFactory", "">>,
      <<"QtColorPropertyManager", "m_spinBoxFactory", "QtIntPropertyManager">>,
      <<"QtEnumPropertyManager", "m_comboBoxFactory", "">>,
      <<"QtSizePolicyPropertyManager", "m_spinBoxFactory", "QtIntPropertyManager">>,
      <<"QtSizePolicyPropertyManager", "m_comboBoxFactory", "QtEnumPropertyManager">>,
      <<"QtFontPropertyManager", "m_fontEditorFactory", "">>,
      <<"QtFontPropertyManager", "m_spinBoxFactory", "QtIntPropertyManager">>,
      <<"QtFontPropertyManager", "m_comboBoxFactory", "QtEnumPropertyManager">>,
      <<"QtFontPropertyManager", "m_checkBoxFactory", "QtBoolPropertyManager">>,
      <<"QtCursorPropertyManager", "m_cursorEditorFactory", "">>,
      <<"QtFlagPropertyManager", "m_checkBoxFactory", "QtBoolPropertyManager">>>>

\* The loops of disconnectPropertyManager, in order.
DisconnectSteps ==
    <<<<"QtIntPropertyManager", "m_spinBoxFactory", "">>,
      <<"QtDoublePropertyManager", "m_doubleSpinBoxFactory", "">>,
      <<"QtBoolPropertyManager", "m_checkBoxFactory", "">>,
      <<"QtStringPropertyManager", "m_lineEditFactory", "">>,
      <<"QtDatePropertyManager", "m_dateEditFactory", "">>,
      <<"QtTimePropertyManager", "m_timeEditFactory", "">>,
      <<"QtDateTimePropertyManager", "m_dateTimeEditFactory", "">>,
      <<"QtKeySequencePropertyManager", "m_keySequenceEditorFactory", "">>,
      <<"QtCharPropertyManager", "m_charEditorFactory", "">>,
      <<"QtLocalePropertyManager", "m_comboBoxFactory", "QtEnumPropertyManager">>,
      <<"QtPointPropertyManager", "m_spinBoxFactory", "QtIntPropertyManager">>,
      <<"QtPointFPropertyManager", "m_doubleSpinBoxFactory", "QtDoublePropertyManager">>,
      <<"QtSizePropertyManager", "m_spinBoxFactory", "QtIntPropertyManager">>,
      <<"QtSizeFPropertyManager", "m_doubleSpinBoxFactory", "QtDoublePropertyManager">>,
      <<"QtRectPropertyManager", "m_spinBoxFactory", "QtIntPropertyManager">>,
      <<"QtRectFPropertyManager", "m_doubleSpinBoxFactory", "QtDoublePropertyManager">>,
      <<"QtColorPropertyManager", "m_colorEditorFactory", "">>,
      <<"QtColorPropertyManager", "m_spinBoxFactory", "QtIntPropertyManager">>,
      <<"QtEnumPropertyManager", "m_comboBoxFactory", "">>,
      <<"QtSizePolicyPropertyManager", "m_spinBoxFactory", "QtIntPropertyManager">>,
      <<"QtSizePolicyPropertyManager", "m_comboBoxFactory", "QtEnumPropertyManager">>,
      <<"QtFontPropertyManager", "m_fontEditorFactory", "">>,
      <<"QtFontPropertyManager", "m_spinBoxFactory", "QtIntPropertyManager">>,
      <<"QtFontPropertyManager", "m_comboBoxFactory", "QtEnumPropertyManager">>,
      <<"QtFontPropertyManager", "m_checkBoxFactory", "QtBoolPropertyManager">>,
      <<"QtCursorPropertyManager", "m_cursorEditorFactory", "">>,
      <<"QtFlagPropertyManager", "m_checkBoxFactory", "QtBoolPropertyManager">>>>

\* The managers the loops `steps` hand to `factory`, one after another.
HandedTo(W, b, steps, factory) ==
    LET Handed(step) ==
            {IF step[3] = "" THEN m ELSE [m EXCEPT !.cls = step[3]] :
                m \in findChildren(W, b, step[1])}
    IN UNION {Handed(steps[k]) : k \in {j \in 1..Len(steps) : steps[j][2] = factory}}

\* connectPropertyManager(QtVariantPropertyManager *manager): each loop
\* calls addPropertyManager of its factory with the managers it is handed;
\* a factory does not add a manager it already has.
connectPropertyManager(W, b) ==
    [W EXCEPT !.m_managers =
        [f \in DOMAIN @ |-> @[f] \cup HandedTo(W, b, ConnectSteps, f)]]

\* A variant of disconnectPropertyManager without the loop over the font
\* managers.
disconnectPropertyManager_noFonts(W, b) ==
    [W EXCEPT !.m_managers =
        [f \in DOMAIN @ |->
            @[f] \ HandedTo(W, b, SelectSeq(DisconnectSteps,
                                            LAMBDA s : s[1] # "QtFontPropertyManager"), f)]]

\* disconnectPropertyManager(QtVariantPropertyManager *manager): each loop
\* calls removePropertyManager of its factory with the managers it is
\* handed; a factory leaves alone a manager it does not have.
disconnectPropertyManager(W, b) ==
    [W EXCEPT !.m_managers =
        [f \in DOMAIN @ |-> @[f] \ HandedTo(W, b, DisconnectSteps, f)]]

\* createEditor(manager, property, parent).  What it returns is the record
\* of the factory asked ("" for none), what the factory was asked to build
\* the editor on (kind "internal": an internal property, null included) and
\* whether a widget came back.  The factory asked looks among its managers
\* for property->propertyManager(): with a null property and a manager to
\* compare with, that read is undefined and `undefined` is what comes of it.
createEditor(W, b, property, undefined) ==
    LET propType == propertyType(W, b, property)
        factory == Lookup(TypeToFactoryInit, propType, "")
        internProp == wrappedProperty(W, property)
        widget ==
            IF W.m_managers[factory] = {} THEN FALSE
            ELSE IF internProp = NULL THEN undefined
            ELSE [b |-> W.internals[internProp].b, top |-> W.internals[internProp].mgr.top,
                  cls |-> W.internals[internProp].mgr.cls] \in W.m_managers[factory]
    IN IF factory = ""
       THEN [W EXCEPT !.ret = [factory |-> "", kind |-> "none", id |-> NULL,
                               widget |-> FALSE]]
       ELSE [W EXCEPT !.ret = [factory |-> factory, kind |-> "internal",
                               id |-> internProp, widget |-> widget]]

(***************************************************************************)
(* The ActiveX wrapper (QDesignerAxWidget, QDesignerAxPluginWidget).       *)
(* `widgets` holds two wrappers and, to be told from them, a QAxWidget and *)
(* a QWidget that are no wrappers; `controls` holds the foreign control    *)
(* instances the wrappers created, live or deleted.                        *)
(***************************************************************************)

\* A variant of loaded() with the comparison the other way round.
loaded_inverted(W, o) == W.widgets[o].m_axobject = NULL

\* bool loaded() { return (m_axobject != 0); }
loaded(W, o) == W.widgets[o].m_axobject # NULL

\* o->metaObject()->className(): a QDesignerAxPluginWidget answers with the
\* foreign control's meta object once loaded and with QDesignerAxWidget's
\* before; any other object answers with its class.
className(W, o) ==
    IF W.widgets[o].cls = "QDesignerAxPluginWidget"
    THEN IF loaded(W, o) THEN "QAxWidget" ELSE "QDesignerAxWidget"
    ELSE W.widgets[o].cls

\* A variant of the type-check helper that knows the unloaded state only.
qobject_cast_unloaded(W, o, undefined) ==
    IF o = NULL THEN NULL
    ELSE IF className(W, o) = "QDesignerAxWidget"
         THEN IF W.widgets[o].cls = "QDesignerAxPluginWidget" THEN o ELSE undefined
         ELSE NULL

\* template <> inline QDesignerAxWidget *qobject_cast<QDesignerAxWidget*>(QObject *o);
\* the static_cast of an object that is no QDesignerAxPluginWidget is
\* undefined, and `undefined` is the pointer that comes of it.
qobject_cast(W, o, undefined) ==
    IF o = NULL THEN NULL
    ELSE IF className(W, o) = "QDesignerAxWidget"
         THEN IF W.widgets[o].cls = "QDesignerAxPluginWidget" THEN o ELSE undefined
         ELSE IF className(W, o) = "QAxWidget"
              THEN IF W.widgets[o].cls = "QDesignerAxPluginWidget" THEN o ELSE undefined
              ELSE NULL

(***************************************************************************)
(* The client's calls.                                                     *)
(***************************************************************************)
Facades == 1..Len(properties)

LiveFacades == {p \in Facades : properties[p].st = "live"}

\* The orders in which a set can hand out the elements of S.
Orders(S) ==
    {f \in [1..Cardinality(S) -> S] : \A i, j \in 1..Cardinality(S) : i # j => f[i] # f[j]}

Call(op, b, p, t, name, h, a, v, ret) ==
    [op |-> op, b |-> b, p |-> p, t |-> t, name |-> name, h |-> h, a |-> a, v |-> v,
     ret |-> ret, emitted |-> <<>>, calls |-> <<>>, received |-> <<>>,
     shifted |-> FALSE]

Init ==
    /\ properties = <<>>
    /\ internals = <<>>
    /\ propertyToWrappedProperty = EmptyMap
    /\ m_propertyToType = [b \in Bridges |-> EmptyMap]
    /\ m_internalToProperty = [b \in Bridges |-> EmptyMap]
    /\ m_creatingProperty = [b \in Bridges |-> FALSE]
    /\ m_creatingSubProperties = [b \in Bridges |-> FALSE]
    /\ m_destroyingSubProperties = [b \in Bridges |-> FALSE]
    /\ m_propertyType = [b \in Bridges |-> UnknownType]
    /\ m_typeToPropertyManager = [b \in Bridges |-> TypeToPropertyManagerInit]
    /\ m_typeToValueType = [b \in Bridges |-> TypeToValueTypeInit]
    /\ m_typeToAttributeToAttributeType =
           [b \in Bridges |-> TypeToAttributeToAttributeTypeInit]
    /\ alive = [b \in Bridges |-> TRUE]
    /\ m_managers = [f \in {TypeToFactoryInit[t] : t \in DOMAIN TypeToFactoryInit}
                              \cup {"q_ptr"} |-> {}]
    /\ widgets = <<[cls |-> "QDesignerAxPluginWidget", m_axobject |-> NULL],
                   [cls |-> "QDesignerAxPluginWidget", m_axobject |-> NULL],
                   [cls |-> "QAxWidget", m_axobject |-> NULL],
                   [cls |-> "QWidget", m_axobject |-> NULL]>>
    /\ controls = <<>>
    /\ last = Call("init", NULL, NULL, UnknownType, "", NoHook, "", Invalid, NULL)

\* The call returned with world W: the next state.
Commit(W, call) ==
    /\ properties' = W.properties
    /\ internals' = W.internals
    /\ propertyToWrappedProperty' = W.propertyToWrappedProperty
    /\ m_propertyToType' = W.m_propertyToType
    /\ m_internalToProperty' = W.m_internalToProperty
    /\ m_creatingProperty' = W.m_creatingProperty
    /\ m_creatingSubProperties' = W.m_creatingSubProperties
    /\ m_destroyingSubProperties' = W.m_destroyingSubProperties
    /\ m_propertyType' = W.m_propertyType
    /\ m_typeToPropertyManager' = W.m_typeToPropertyManager
    /\ m_typeToValueType' = W.m_typeToValueType
    /\ m_typeToAttributeToAttributeType' = W.m_typeToAttributeToAttributeType
    /\ alive' = W.alive
    /\ m_managers' = W.m_managers
    /\ widgets' = W.widgets
    /\ controls' = W.controls
    /\ last' = [call EXCEPT !.emitted = W.emitted, !.calls = W.calls,
                            !.received = W.received,
                            !.ret = IF call.op \in {"addProperty", "addSubProperty",
                                                   "addProperty(name)", "createEditor",
                                                   "loadControl"}
                                    THEN W.ret
                                    ELSE NULL]

\* <Bridge b>.addProperty(t, name), with client slot h connected to
\* propertyChanged.
AddProperty(b, t, name, h) ==
    /\ alive[b]
    /\ Commit(addProperty(World, b, t, name, h),
              Call("addProperty", b, NULL, t, name, h, "", Invalid, NULL))

\* <Bridge b>.QtAbstractPropertyManager::addProperty(name), called by a
\* client.
InheritedAddProperty(b, name) ==
    /\ alive[b]
    /\ Commit(QtAbstractPropertyManager_addProperty(World, b, name, NoHook),
              Call("addProperty(name)", b, NULL, UnknownType, name, NoHook, "", Invalid,
                   NULL))

\* <Bridge b>.isPropertyTypeSupported(t), valueType(t), attributes(t) and
\* attributeType(t, a), called by a client; of the four only valueType
\* reaches its map through a function that is not const.
QueryRegistry(b, t, a) ==
    /\ alive[b]
    /\ Commit(valueType_call(World, b, t),
              Call("valueType", b, NULL, t, "", NoHook, a, Invalid, NULL))

\* <Bridge b>.setValue(p, v)
SetValue(b, p, v) ==
    /\ alive[b]
    /\ p \in LiveFacades
    /\ Commit(setValue(World, b, p, v),
              Call("setValue", b, p, UnknownType, "", NoHook, "", v, NULL))

\* <Bridge b>.setAttribute(p, a, v)
SetAttribute(b, p, a, v) ==
    /\ alive[b]
    /\ p \in LiveFacades
    /\ Commit(setAttribute(World, b, p, a, v),
              Call("setAttribute", b, p, UnknownType, "", NoHook, a, v, NULL))

\* The manager of internal property i, a manager whose propertyInserted
\* Bridge b listens to, gives i one more sub-property, owned by a manager of
\* class cls.
AddSubProperty(b, i, cls) ==
    /\ alive[b]
    /\ i \in 1..Len(internals)
    /\ internals[i].st = "live"
    /\ internals[i].b = b
    /\ Connected(internals[i].mgr, "propertyInserted")
    /\ Commit(Manager_addSubProperty(
                  [World EXCEPT !.internals =
                       Append(@, NewInternal(SubManager(internals[i].mgr.top, cls), b))],
                  b, i, Len(internals) + 1),
              Call("addSubProperty", b, i, cls, "", NoHook, "", Invalid, NULL))

\* delete p
DeleteProperty(p, shifted) ==
    /\ p \in LiveFacades
    /\ Commit(Facade_delete([World EXCEPT !.shifted = shifted], p),
              [Call("delete", properties[p].manager, p, UnknownType, "", NoHook, "",
                    Invalid, NULL) EXCEPT !.shifted = shifted])

\* <the editor factory>.addPropertyManager(<Bridge b>): a Bridge it already
\* has is not connected again.
AddPropertyManager(b) ==
    LET bridge == [b |-> b, top |-> UnknownType, cls |-> "QtVariantPropertyManager"] IN
    /\ alive[b]
    /\ bridge \notin m_managers["q_ptr"]
    /\ Commit(connectPropertyManager([World EXCEPT !.m_managers["q_ptr"] = @ \cup {bridge}],
                                     b),
              Call("addPropertyManager", b, NULL, UnknownType, "", NoHook, "", Invalid,
                   NULL))

\* <the editor factory>.removePropertyManager(<Bridge b>): a Bridge it does
\* not have is left alone.
RemovePropertyManager(b) ==
    LET bridge == [b |-> b, top |-> UnknownType, cls |-> "QtVariantPropertyManager"]
        Removed(W) == [W EXCEPT !.m_managers["q_ptr"] = @ \ {bridge}]
    IN /\ alive[b]
       /\ bridge \in m_managers["q_ptr"]
       /\ Commit(Removed(disconnectPropertyManager(World, b)),
                 Call("removePropertyManager", b, NULL, UnknownType, "", NoHook, "",
                      Invalid, NULL))

\* <the editor factory>.createEditor(<Bridge b>, p, parent)
CreateEditor(b, p, undefined) ==
    /\ alive[b]
    /\ p \in LiveFacades
    /\ Commit(createEditor(World, b, p, undefined),
              Call("createEditor", b, p, propertyType(World, b, p), "", NoHook, "",
                   Invalid, NULL))

\* <wrapper w>.resetControl(): releases the instance the wrapper holds.
ResetControl(w) ==
    LET i == widgets[w].m_axobject
        Released(W) ==
            IF i = NULL THEN W
            ELSE [W EXCEPT !.controls[i].st = "deleted", !.widgets[w].m_axobject = NULL]
    IN /\ widgets[w].cls = "QDesignerAxPluginWidget"
       /\ Commit(Released(World),
                 Call("resetControl", NULL, w, UnknownType, "", NoHook, "", Invalid, NULL))

\* <wrapper w>.loadControl(clsid): with a class identifier that is invalid or
\* cannot be instantiated the call returns false and leaves the prior state
\* or the unloaded one (`keeps` says which); otherwise the wrapper releases
\* the instance it holds, creates the control and returns true.  The call
\* is recorded with what loaded() answered before it.
LoadControl(w, clsid, keeps) ==
    LET i == widgets[w].m_axobject
        Released(W) ==
            IF i = NULL THEN W
            ELSE [W EXCEPT !.controls[i].st = "deleted", !.widgets[w].m_axobject = NULL]
        Loaded(W) ==
            [W EXCEPT !.controls = Append(@, [st |-> "live", clsid |-> clsid, owner |-> w]),
                      !.widgets[w].m_axobject = Len(W.controls) + 1,
                      !.ret = TRUE]
        Failed(W) == [W EXCEPT !.ret = FALSE]
    IN /\ widgets[w].cls = "QDesignerAxPluginWidget"
       /\ Commit(IF clsid \in {"", "bogus-clsid"}
                 THEN Failed(IF keeps THEN World ELSE Released(World))
                 ELSE Loaded(Released(World)),
                 Call("loadControl", NULL, w, UnknownType, clsid, NoHook, "",
                      BoolV(loaded(World, w)), NULL))

\* delete <Bridge b>; every editor factory forgets a manager that is
\* destroyed.
DestroyBridge(b, shifted) ==
    LET Forgotten(W) ==
            [W EXCEPT !.m_managers = [f \in DOMAIN @ |-> {m \in @[f] : m.b # b}]]
    IN
    /\ alive[b]
    /\ \E order \in Orders({p \in LiveFacades : properties[p].manager = b}) :
           Commit(Forgotten(
                      QtVariantPropertyManager_destroy([World EXCEPT !.shifted = shifted],
                                                       b, order)),
                  [Call("destroy", b, NULL, UnknownType, "", NoHook, "", Invalid, NULL)
                      EXCEPT !.shifted = shifted])

(***************************************************************************)
(* The specification: clients create, write, delete and destroy, with the  *)
(* inputs below.                                                           *)
(***************************************************************************)
TypeInputs == {"Int", enumTypeId, flagTypeId, groupTypeId, "QBitArray"}

\* (name, client slot) of a creation: an unnamed property changes no name,
\* so no slot runs.
CreationInputs == {<<"", NoHook>>, <<"w", AddHook(groupTypeId)>>}

ValueInputs ==
    {IntV(5), IntV(1), StrV("not an int"), RectV(<<1, 2, 3, 4>>), Invalid}

AttributeInputs ==
    {m_minimumAttribute, m_maximumAttribute, m_enumNamesAttribute, m_flagNamesAttribute}

AttributeValueInputs == {IntV(0), IntV(10), StrListV(<<"Left", "Right">>)}

\* The facades clients created themselves, so far.
TopLevelCreated == Cardinality({p \in Facades : ~properties[p].wrapper})

Within(maxFacades, maxInternals) ==
    /\ Len(properties') <= maxFacades
    /\ Len(internals') <= maxInternals

\* A call that creates a facade needs room for one more client-created one.
Room(b, t) == isPropertyTypeSupported(World, b, t) => TopLevelCreated < MaxTopLevel

Next ==
    \/ \E b \in Bridges, t \in TypeInputs, c \in CreationInputs :
           /\ Room(b, t)
           /\ AddProperty(b, t, c[1], c[2])
           /\ Within(MaxFacades, MaxInternals)
    \/ \E b \in Bridges, p \in Facades, v \in ValueInputs : SetValue(b, p, v)
    \/ \E b \in Bridges, p \in Facades, a \in AttributeInputs,
          v \in AttributeValueInputs :
           SetAttribute(b, p, a, v) /\ Within(MaxFacades, MaxInternals)
    \/ \E p \in Facades, shifted \in BOOLEAN : DeleteProperty(p, shifted)
    \/ \E b \in Bridges, shifted \in BOOLEAN : DestroyBridge(b, shifted)

Spec == Init /\ [][Next]_vars

(***************************************************************************)
(* A second specification: clients create a property of any type id, and   *)
(* delete the facades they created.                                        *)
(***************************************************************************)
RegisteredTypes == ConcreteTypes \cup {enumTypeId, flagTypeId, groupTypeId}

UnregisteredTypeInputs == {"QBitArray", iconMapTypeId, UnknownType}

AllCreationInputs == CreationInputs \cup {<<"w", NoHook>>}

NextTypes ==
    \/ \E b \in Bridges, t \in RegisteredTypes \cup UnregisteredTypeInputs,
          c \in AllCreationInputs :
           /\ Room(b, t)
           /\ AddProperty(b, t, c[1], c[2])
           /\ Within(MaxTypeFacades, MaxTypeFacades)
    \/ \E p \in Facades, shifted \in BOOLEAN :
           ~properties[p].wrapper /\ DeleteProperty(p, shifted)

SpecTypes == Init /\ [][NextTypes]_vars

(***************************************************************************)
(* A third specification: clients create rectangle properties, write the   *)
(* rectangle and its four children, and delete facades.                    *)
(***************************************************************************)
CompositeValueInputs == {IntV(5), RectV(<<1, 2, 3, 4>>)}

NextComposite ==
    \/ \E b \in Bridges, c \in CreationInputs :
           /\ Room(b, "QRect")
           /\ AddProperty(b, "QRect", c[1], c[2])
           /\ Within(MaxCompositeFacades, MaxCompositeFacades)
    \/ \E b \in Bridges, p \in Facades, v \in CompositeValueInputs : SetValue(b, p, v)
    \/ \E p \in Facades, shifted \in BOOLEAN : DeleteProperty(p, shifted)

SpecComposite == Init /\ [][NextComposite]_vars

(***************************************************************************)
(* A fourth specification: clients create flag properties, change their    *)
(* flag names, which makes the flag manager remove the bool sub-properties *)
(* it had and insert new ones, delete facades and destroy Bridges.         *)
(***************************************************************************)
FlagNamesInputs == {StrListV(<<"Left", "Right">>), StrListV(<<"Top">>)}

NextFlags ==
    \/ \E b \in Bridges, c \in CreationInputs :
           /\ Room(b, flagTypeId)
           /\ AddProperty(b, flagTypeId, c[1], c[2])
           /\ Within(MaxFlagObjects, MaxFlagObjects)
    \/ \E b \in Bridges, p \in Facades, v \in FlagNamesInputs :
           /\ SetAttribute(b, p, m_flagNamesAttribute, v)
           /\ Within(MaxFlagObjects, MaxFlagObjects)
    \/ \E p \in Facades, shifted \in BOOLEAN : DeleteProperty(p, shifted)
    \/ \E b \in Bridges, shifted \in BOOLEAN : DestroyBridge(b, shifted)

SpecFlags == Init /\ [][NextFlags]_vars

(***************************************************************************)
(* A fifth specification, for the type inference of createSubProperty: an  *)
(* internal flag property is given sub-properties owned by managers of     *)
(* every class, also of the classes no composite manager of the library    *)
(* uses for its sub-properties.                                            *)
(***************************************************************************)
InternalManagerClasses ==
    {ManagerClass(t) : t \in ConcreteTypes \cup {enumTypeId, flagTypeId, groupTypeId}}

NextInfer ==
    \/ \E b \in Bridges :
           /\ Room(b, flagTypeId)
           /\ AddProperty(b, flagTypeId, "", NoHook)
           /\ Within(MaxInferObjects, MaxInferObjects)
    \/ \E b \in Bridges, i \in 1..Len(internals), cls \in InternalManagerClasses :
           /\ AddSubProperty(b, i, cls)
           /\ Within(MaxInferObjects, MaxInferObjects)
    \/ \E p \in Facades, shifted \in BOOLEAN : DeleteProperty(p, shifted)

SpecInfer == Init /\ [][NextInfer]_vars

(***************************************************************************)
(* A sixth specification: clients call the inherited addProperty(name),    *)
(* directly and from a slot that runs while addProperty(type, name) is     *)
(* creating a property, and delete facades.                                *)
(***************************************************************************)


NextInherited ==
    \/ \E b \in Bridges, t \in {"Int", groupTypeId, "QBitArray"}, 
          c \in {<<"", NoHook>>, <<"w", NoHook>>, <<"w", InheritedAddHook>>} :
           /\ AddProperty(b, t, c[1], c[2])
           /\ Within(MaxInheritedFacades, MaxInheritedFacades)
    \/ \E b \in Bridges, name \in {"", "w"} : InheritedAddProperty(b, name)
    \/ \E p \in Facades, shifted \in BOOLEAN : DeleteProperty(p, shifted)

SpecInherited == Init /\ [][NextInherited]_vars

(***************************************************************************)
(* A seventh specification: clients query the type registry, also with     *)
(* type ids that are not registered, between creations, writes and         *)
(* deletions.                                                              *)
(***************************************************************************)
NextQueries ==
    \/ \E b \in Bridges, t \in {"Int", "QBitArray"}, c \in CreationInputs :
           /\ Room(b, t)
           /\ AddProperty(b, t, c[1], c[2])
           /\ Within(MaxFacades, MaxInternals)
    \/ \E b \in Bridges, t \in {"Int", groupTypeId, "QBitArray", iconMapTypeId, UnknownType},
          a \in {m_minimumAttribute, m_regExpAttribute} : QueryRegistry(b, t, a)
    \/ \E b \in Bridges, p \in Facades : SetValue(b, p, IntV(5))
    \/ \E b \in Bridges, p \in Facades :
           SetAttribute(b, p, m_minimumAttribute, IntV(10))
    \/ \E p \in Facades, shifted \in BOOLEAN : DeleteProperty(p, shifted)

SpecQueries == Init /\ [][NextQueries]_vars

(***************************************************************************)
(* An eighth specification: the editor factory is connected to Bridges and *)
(* disconnected from them, and asked for editors of int, colour and group  *)
(* facades.                                                                *)
(***************************************************************************)
NextRouter ==
    \/ \E b \in Bridges, t \in {"Int", "QColor", groupTypeId}, c \in CreationInputs :
           /\ Room(b, t)
           /\ AddProperty(b, t, c[1], c[2])
           /\ Within(MaxRouterObjects, MaxRouterObjects)
    \/ \E b \in Bridges : AddPropertyManager(b)
    \/ \E b \in Bridges : RemovePropertyManager(b)
    \/ \E b \in Bridges, p \in Facades, undefined \in BOOLEAN : CreateEditor(b, p, undefined)
    \/ \E p \in Facades, shifted \in BOOLEAN : DeleteProperty(p, shifted)
    \/ \E b \in Bridges, shifted \in BOOLEAN : DestroyBridge(b, shifted)

SpecRouter == Init /\ [][NextRouter]_vars

(***************************************************************************)
(* A ninth specification: clients load controls into the wrappers, with    *)
(* class identifiers that can and that cannot be instantiated, and reset   *)
(* them.                                                                   *)
(***************************************************************************)
NextShim ==
    \/ \E w \in DOMAIN widgets, keeps \in BOOLEAN,
          clsid \in {"", "bogus-clsid", "{8856F961-340A-11D0-A96B-00C04FD705A2}",
                     "{6BF52A52-394A-11D3-B153-00C04F79FAA6}"} :
           /\ LoadControl(w, clsid, keeps)
           /\ Len(controls') <= MaxControls
    \/ \E w \in DOMAIN widgets : ResetControl(w)

SpecShim == Init /\ [][NextShim]_vars

(***************************************************************************)
(* A tenth specification: clients create flag and int properties, change   *)
(* flag names, also from a slot that runs while a property is created, and *)
(* delete facades.                                                         *)
(***************************************************************************)
NextMirror ==
    \/ \E b \in Bridges, t \in {flagTypeId, "Int"},
          c \in {<<"", NoHook>>, <<"w", FlagNamesHook>>} :
           /\ TopLevelCreated <= MaxTopLevel
           /\ AddProperty(b, t, c[1], c[2])
           /\ Within(MaxFacades, MaxInternals)
    \/ \E b \in Bridges, p \in Facades, v \in FlagNamesInputs :
           /\ SetAttribute(b, p, m_flagNamesAttribute, v)
           /\ Within(MaxFacades, MaxInternals)
    \/ \E p \in Facades, shifted \in BOOLEAN : DeleteProperty(p, shifted)

SpecMirror == Init /\ [][NextMirror]_vars

(***************************************************************************)
(* Properties.  `last` is the client's last call with what it returned,    *)
(* the signals the Bridges emitted during it and the internal setters it   *)
(* reached; the read accessors are evaluated on the state before the call  *)
(* (World) and after it (World').                                          *)
(***************************************************************************)
AttributeNames ==
    {m_constraintAttribute, m_singleStepAttribute, m_decimalsAttribute,
     m_enumIconsAttribute, m_enumNamesAttribute, m_flagNamesAttribute,
     m_maximumAttribute, m_minimumAttribute, m_regExpAttribute}

\* The signals named sig among those the last call emitted.
EmittedSignals(call, sig) == {k \in 1..Len(call.emitted) : call.emitted[k].sig = sig}

\* C1: every type id registered at construction is supported, and
\* addProperty(t, name) with such a t returns a non-null facade whose
\* property type is t and whose value type is the one registered for t.
C1_RegisteredTypeCreates ==
    /\ \A b \in Bridges, t \in RegisteredTypes : isPropertyTypeSupported(World, b, t)
    /\ (last.op = "addProperty" /\ last.t \in RegisteredTypes) =>
          /\ last.ret # NULL
          /\ propertyType(World, last.b, last.ret) = last.t
          /\ valueType(World, last.b, last.ret) = TypeToValueTypeInit[last.t]

C1_Witness ==
    /\ last.op = "addProperty"
    /\ last.t = enumTypeId
    /\ last.ret # NULL
    /\ propertyType(World, last.b, last.ret) = enumTypeId
    /\ valueType(World, last.b, last.ret) = "Int"

C2_Step ==
    (last'.op = "addProperty" /\ last'.t \notin RegisteredTypes) =>
        /\ ~isPropertyTypeSupported(World, last'.b, last'.t)
        /\ ~isPropertyTypeSupported(World', last'.b, last'.t)
        /\ last'.ret = NULL
        /\ UNCHANGED <<properties, internals, propertyToWrappedProperty,
                       m_internalToProperty, m_propertyToType, m_propertyType,
                       m_creatingProperty, m_creatingSubProperties,
                       m_destroyingSubProperties>>

\* C2: a type id that is not registered is not supported, and addProperty
\* with it returns null, creates no facade, allocates no internal property
\* and leaves both maps, the pending type id and the three flags unchanged.
C2_UnregisteredTypeRejected == [][C2_Step]_vars

C2_Witness ==
    /\ last.op = "addProperty"
    /\ last.t = "QBitArray"
    /\ last.ret = NULL
    /\ LiveFacades # {}
    /\ ~isPropertyTypeSupported(World, last.b, "QBitArray")

C3_Step ==
    LET b == last'.b
        p == last'.p
        v == last'.v
        valType == valueType(World, b, p)
        i == wrappedProperty(World, p)
        cls == internals[i].mgr.cls
        x == qvariant_cast(BoxType(cls), v)
        min == internals[i].attr[m_minimumAttribute].v
        max == internals[i].attr[m_maximumAttribute].v
        enumNames == internals[i].attr[m_enumNamesAttribute].v
        flagNames == internals[i].attr[m_flagNamesAttribute].v
        after == value(World', b, p)
    IN (/\ last'.op = "setValue"
        /\ b = properties[p].manager
        /\ isValid(v)
        /\ userType(v) = valType \/ canConvert(userType(v), valType))
       => IF i = NULL
          THEN after = Invalid /\ last'.calls = <<>>
          ELSE /\ userType(after) = valType
               /\ CASE cls = "QtIntPropertyManager" ->
                         after.v = (IF x < min THEN min ELSE IF x > max THEN max ELSE x)
                    [] cls = "QtEnumPropertyManager" ->
                         after.v = (IF 0 <= x /\ x < Len(enumNames) THEN x
                                    ELSE IF x < 0 /\ Len(enumNames) = 0 THEN -1
                                    ELSE value(World, b, p).v)
                    [] cls = "QtFlagPropertyManager" ->
                         after.v = (IF 0 <= x /\ x < Pow2(Len(flagNames)) THEN x
                                    ELSE value(World, b, p).v)
                    [] OTHER -> after.v = x

C4_Step ==
    LET b == last'.b
        p == last'.p
        v == last'.v
        valType == valueType(World, b, p)
    IN (/\ last'.op = "setValue"
        /\ \/ ~isValid(v)
           \/ userType(v) # valType /\ ~canConvert(userType(v), valType))
       => /\ value(World', b, p) = value(World, b, p)
          /\ last'.calls = <<>>
          /\ EmittedSignals(last', "valueChanged") = {}
          /\ UNCHANGED <<properties, internals>>

\* C4: setValue(p, v) with an invalid v, or with a v whose type differs from
\* the value type of p and is not convertible to it, leaves value(p)
\* unchanged, calls no internal setter and emits no valueChanged.
C4_MismatchIsNoOp == [][C4_Step]_vars

C4_Witness ==
    /\ last.op = "setValue"
    /\ last.b = properties[last.p].manager
    /\ Mapped(World, last.p)
    /\ propertyType(World, last.b, last.p) = "Int"
    /\ last.v = RectV(<<1, 2, 3, 4>>)
    /\ value(World, last.b, last.p) = IntV(5)
    /\ last.calls = <<>>

\* The case of C5: an Int facade with range [0, 10] holding 5 is given the
\* string "not an int".
C5_Case ==
    /\ last'.op = "setValue"
    /\ last'.v = StrV("not an int")
    /\ propertyType(World, last'.b, last'.p) = "Int"
    /\ attributeValue(World, last'.b, last'.p, m_minimumAttribute) = IntV(0)
    /\ attributeValue(World, last'.b, last'.p, m_maximumAttribute) = IntV(10)
    /\ value(World, last'.b, last'.p) = IntV(5)

\* C5 as stated: on an Int facade with minimum 0, maximum 10 and value 5,
\* setValue with a string that is no integer leaves the value 5.
C5_StringLeavesValue == [][C5_Case => value(World', last'.b, last'.p) = IntV(5)]_vars

\* C5, amended: on an Int facade with minimum 0, maximum 10 and value 5,
\* setValue with a string that is no integer sets the value to 0: a string
\* is of a type convertible to Int, and the text converts to 0.
C5_StringSetsZero == [][C5_Case => value(World', last'.b, last'.p) = IntV(0)]_vars

C5_Witness ==
    /\ last.op = "setValue"
    /\ last.v = StrV("not an int")
    /\ propertyType(World, last.b, last.p) = "Int"
    /\ attributeValue(World, last.b, last.p, m_minimumAttribute) = IntV(0)
    /\ attributeValue(World, last.b, last.p, m_maximumAttribute) = IntV(10)
    /\ value(World, last.b, last.p) = IntV(0)
    /\ \E k \in EmittedSignals(last, "valueChanged") : last.emitted[k].v = IntV(0)

C6_Step ==
    LET b == last'.b
        p == last'.p
        a == last'.a
        v == last'.v
        attrType == attributeType(World, b, propertyType(World, b, p), a)
    IN (/\ last'.op = "setAttribute"
        /\ ~(userType(v) = attrType \/ canConvert(userType(v), attrType)))
       => /\ attributeValue(World', b, p, a) = attributeValue(World, b, p, a)
          /\ last'.calls = <<>>
          /\ EmittedSignals(last', "attributeChanged") = {}

\* C6: setAttribute(p, a, v) leaves attributeValue(p, a) unchanged, calls no
\* internal setter and emits no attributeChanged unless v has the type of
\* the attribute or a type convertible to it.
C6_AttributeTypeGate == [][C6_Step]_vars

\* Whether x lies in the range the attributes of p give its values.
InRange(b, p, x) ==
    LET t == propertyType(World, b, p)
        min == attributeValue(World, b, p, m_minimumAttribute)
        max == attributeValue(World, b, p, m_maximumAttribute)
        names == attributeValue(World, b, p, m_enumNamesAttribute)
    IN CASE t = "Int" -> isValid(min) /\ isValid(max) /\ min.v <= x /\ x <= max.v
         [] t = enumTypeId -> isValid(names) /\ 0 <= x /\ x < Len(names.v)
         [] OTHER -> FALSE

\* C7: after setAttribute(p, a, v) on p's Bridge, with a an attribute of the
\* type of the live facade p and v of that attribute's type,
\* attributeValue(p, a) returns v; and after a setValue(p, x) with x in
\* range, value(p) returns x.
C7_AttributeRoundTrip ==
    LET b == last.b
        p == last.p
        t == propertyType(World, b, p)
    IN /\ (/\ last.op = "setAttribute"
           /\ b = properties[p].manager
           /\ properties[p].st = "live"
           /\ last.a \in attributes(World, b, t)
           /\ userType(last.v) = attributeType(World, b, t, last.a))
          => attributeValue(World, b, p, last.a) = last.v
       /\ (/\ last.op = "setValue"
           /\ b = properties[p].manager
           /\ properties[p].st = "live"
           /\ userType(last.v) = "Int"
           /\ InRange(b, p, last.v.v))
          => value(World, b, p) = last.v

C8_Step ==
    /\ \A b \in Bridges, p \in LiveFacades' :
          \A a \in AttributeNames \ attributes(World', b, propertyType(World', b, p)) :
             attributeValue(World', b, p, a) = Invalid
    /\ (/\ last'.op = "setAttribute"
        /\ last'.a \notin attributes(World, last'.b,
                                     propertyType(World, last'.b, last'.p)))
       => /\ last'.emitted = <<>>
          /\ last'.calls = <<>>
          /\ UNCHANGED <<properties, internals, propertyToWrappedProperty,
                         m_propertyToType, m_internalToProperty, m_creatingProperty,
                         m_creatingSubProperties, m_destroyingSubProperties,
                         m_propertyType, m_typeToPropertyManager, m_typeToValueType,
                         m_typeToAttributeToAttributeType, alive>>

\* C8: for an attribute name that is not registered for the property type
\* of p, attributeValue(p, a) is invalid, and setAttribute(p, a, v) changes
\* no state and emits nothing, whatever v.
C8_UnknownAttribute == [][C8_Step]_vars

C8_Witness ==
    /\ last.op = "setAttribute"
    /\ last.b = properties[last.p].manager
    /\ Mapped(World, last.p)
    /\ propertyType(World, last.b, last.p) = "Int"
    /\ last.a = m_flagNamesAttribute
    /\ last.v = StrListV(<<"Left", "Right">>)
    /\ attributeValue(World, last.b, last.p, m_flagNamesAttribute) = Invalid
    /\ last.emitted = <<>>

\* C9: value(property) and attributeValue(property, a) of a Bridge return an
\* invalid value for a live facade that another Bridge created.
C9_UnmanagedReadsInvalid ==
    \A b \in Bridges, p \in LiveFacades :
        (alive[b] /\ properties[p].manager # b) =>
            /\ value(World, b, p) = Invalid
            /\ \A a \in AttributeNames : attributeValue(World, b, p, a) = Invalid

\* C10: between the calls, every live facade has an entry in the
\* facade->internal map; a facade mapped to a non-null internal property is
\* what the internal->facade map of its Bridge gives for that property, and
\* no other facade is mapped to it; and neither map holds a destroyed
\* facade or internal property.
C10_MappingInvariant ==
    /\ \A p \in LiveFacades : p \in DOMAIN propertyToWrappedProperty
    /\ \A p \in DOMAIN propertyToWrappedProperty :
          LET i == propertyToWrappedProperty[p]
              b == properties[p].manager
          IN i # NULL =>
                /\ Lookup(m_internalToProperty[b], i, NULL) = p
                /\ \A q \in DOMAIN propertyToWrappedProperty :
                      q # p => propertyToWrappedProperty[q] # i
    /\ \A p \in DOMAIN propertyToWrappedProperty :
          /\ properties[p].st = "live"
          /\ propertyToWrappedProperty[p] # NULL =>
                internals[propertyToWrappedProperty[p]].st = "live"
    /\ \A b \in Bridges : \A i \in DOMAIN m_internalToProperty[b] :
          /\ internals[i].st = "live"
          /\ properties[m_internalToProperty[b][i]].st = "live"

\* The entries of facade p and of internal property i are gone from the
\* three maps of Bridge b in world W.
Unmapped(W, b, p, i) ==
    /\ p \notin DOMAIN W.propertyToWrappedProperty
    /\ i \notin DOMAIN W.m_internalToProperty[b]
    /\ p \notin DOMAIN W.m_propertyToType[b]
    /\ wrappedProperty(W, p) = NULL
    /\ Lookup(W.m_internalToProperty[b], i, NULL) = NULL
    /\ variantProperty(W, b, p) = NULL
    /\ propertyType(W, b, p) = UnknownType

C11_Step ==
    (last'.op = "delete" /\ Mapped(World, last'.p)) =>
        Unmapped(World', last'.b, last'.p, wrappedProperty(World, last'.p))

PrePopulated(t) ==
    IF t \in RegisteredTypes THEN Len(SubPropertyClasses(ManagerClass(t))) ELSE 0

\* C13: addProperty for a composite type whose internal manager pre-populates
\* n sub-properties returns a facade with exactly n child facades, one per
\* internal sub-property and in their order, each mapped in both directions
\* to its internal sub-property; the Bridge inserted n children, no more.
C13_CompositeChildren ==
    LET b == last.b
        f == last.ret
        n == PrePopulated(last.t)
        i == wrappedProperty(World, f)
    IN (last.op = "addProperty" /\ n > 0) =>
          /\ f # NULL
          /\ Len(properties[f].sub) = n
          /\ i # NULL
          /\ Len(internals[i].sub) = n
          /\ \A k \in 1..n :
                /\ wrappedProperty(World, properties[f].sub[k]) = internals[i].sub[k]
                /\ Lookup(m_internalToProperty[b], internals[i].sub[k], NULL) =
                      properties[f].sub[k]
                /\ properties[properties[f].sub[k]].parent = f
          /\ Cardinality({k \in EmittedSignals(last, "propertyInserted") :
                             last.emitted[k].parent = f}) = n

\* The signals of the kinds in sigs that Bridge slots emitted during call.
SlotSignals(call, sigs) == {k \in 1..Len(call.emitted) : call.emitted[k].sig \in sigs}

\* C14: when a signal of an internal manager for internal property i reaches
\* a slot of the Bridge, the Bridge emits valueChanged / attributeChanged
\* with the facade its internal->facade map gives for i, a facade of this
\* Bridge wrapping i; and for an i the map does not hold it emits nothing.
C14_SlotsCarryFacade ==
    /\ \A k \in SlotSignals(last, {"valueChanged", "attributeChanged"}) :
          LET e == last.emitted[k] IN
          /\ e.slot \in 1..Len(last.received)
          /\ last.received[e.slot].b = e.b
          /\ last.received[e.slot].f # NULL
          /\ last.received[e.slot].f = e.p
          /\ e.p \in Facades
          /\ properties[e.p].manager = e.b
          /\ properties[e.p].st = "live" =>
                wrappedProperty(World, e.p) = last.received[e.slot].i
    /\ \A j \in 1..Len(last.received) :
          LET r == last.received[j]
              sigs == IF r.sig = "valueChanged" THEN {"valueChanged"}
                      ELSE {"attributeChanged"}
          IN r.sig \notin {"propertyInserted", "propertyRemoved"} =>
             ((r.f # NULL) <=>
                \E k \in SlotSignals(last, sigs) :
                    last.emitted[k].slot = j /\ last.emitted[k].p = r.f)

C14_Witness ==
    /\ last.op = "setValue"
    /\ propertyType(World, last.b, last.p) = "QRect"
    /\ last.v = RectV(<<1, 2, 3, 4>>)
    /\ \E k \in SlotSignals(last, {"valueChanged"}) :
          /\ last.emitted[k].p = last.p
          /\ last.emitted[k].v = last.v
    /\ \E k \in SlotSignals(last, {"valueChanged"}) :
          /\ properties[last.emitted[k].p].parent = last.p
          /\ last.emitted[k].v = IntV(4)

\* C15: every valueChanged(f, v) a Bridge emits passes the new value of f:
\* v has the value type of f and equals what value(f) returns at that
\* moment, for every registered property type, enum and flag included.
C15_ValueChangedPassesValue ==
    \A k \in SlotSignals(last, {"valueChanged"}) :
        /\ userType(last.emitted[k].v) = last.emitted[k].valueType
        /\ last.emitted[k].v = last.emitted[k].value

\* C16: at every signal a Bridge emits while it is inside addProperty, the
\* facade the signal carries (the new top-level facade, or a child being
\* inserted into its parent) has its internal counterpart installed.
C16_HandlersSeeMapped ==
    last.op = "addProperty" =>
        \A k \in 1..Len(last.emitted) :
            (last.emitted[k].creating /\ last.emitted[k].p # NULL) =>
                last.emitted[k].mapped

IsPrefix(s, t) == Len(s) <= Len(t) /\ s = SubSeq(t, 1, Len(s))

\* C17: every facade enters the states uninitialized, initializing, live,
\* uninitializing, destroyed in this order without skipping one, and none
\* twice: no call made from a signal handler while a facade is being
\* initialized or taken down starts that again for it or for a facade of
\* its subtree.  A facade that exists is live, a destroyed one went through
\* all five states.
C17_Lifecycle ==
    \A p \in Facades :
        /\ IsPrefix(properties[p].life, Lifecycle)
        /\ properties[p].st = "live" => properties[p].life = SubSeq(Lifecycle, 1, 3)
        /\ properties[p].st = "destroyed" => properties[p].life = Lifecycle
        /\ properties[p].deleted = (IF properties[p].st = "destroyed" THEN 1 ELSE 0)

C17_Witness ==
    /\ last.op = "delete"
    /\ properties[last.p].life = Lifecycle
    /\ \E k \in EmittedSignals(last, "propertyRemoved") :
          /\ last.emitted[k].parent = last.p
          /\ properties[last.emitted[k].p].wrapper
          /\ properties[last.emitted[k].p].life = Lifecycle

\* The requests `delete internProp` uninitializeProperty made during call.
DeleteRequests(call) == {k \in 1..Len(call.calls) : call.calls[k].fn = "delete"}

\* C18: no facade and no internal property is deleted twice.  A facade's
\* destruction requests the deletion of its internal property exactly when
\* it has one and the destroying-sub-properties flag is false; a facade
\* removeSubProperty destroys because its internal sub-property was removed
\* makes no such request, and that internal property is deleted once.
C18_DeletedOnce ==
    /\ \A p \in Facades : properties[p].deleted <= 1
    /\ \A i \in 1..Len(internals) : internals[i].deleted <= 1
    /\ \A k, l \in DeleteRequests(last) :
          last.calls[k].i = last.calls[l].i => k = l
    /\ Cardinality(DeleteRequests(last)) =
          Cardinality({k \in EmittedSignals(last, "propertyDestroyed") :
                          last.emitted[k].mapped /\ ~last.emitted[k].destroying})
    /\ \A j \in 1..Len(last.received) :
          LET r == last.received[j] IN
          (r.sig = "propertyRemoved" /\ r.f # NULL) =>
              /\ internals[r.i].deleted = 1
              /\ properties[r.f].deleted = 1
              /\ \A k \in EmittedSignals(last, "propertyDestroyed") :
                    last.emitted[k].p = r.f => last.emitted[k].destroying
              /\ \A k \in DeleteRequests(last) : last.calls[k].i # r.i

C18_Witness ==
    /\ last.op = "setAttribute"
    /\ last.a = m_flagNamesAttribute
    /\ DeleteRequests(last) = {}
    /\ \E j \in 1..Len(last.received) :
          /\ last.received[j].sig = "propertyRemoved"
          /\ last.received[j].f # NULL
          /\ properties[last.received[j].f].st = "destroyed"
          /\ properties[last.received[j].f].deleted = 1
          /\ internals[last.received[j].i].st = "destroyed"
          /\ internals[last.received[j].i].deleted = 1
    /\ \E p \in Facades : properties[p].wrapper /\ properties[p].st = "live"

\* The slots of kind sig that ran during call.
ReceivedSignals(call, sig) == {j \in 1..Len(call.received) : call.received[j].sig = sig}

\* C19: when propertyInserted(child, parent, after) of an internal manager
\* reaches the Bridge outside addProperty and parent has facade P, the Bridge
\* creates one child facade of P for child, puts it after the facade of
\* `after` (first when there is none) and installs both entries for it; when
\* propertyRemoved(child) reaches it and child has facade c, c is destroyed
\* with the destroying-sub-properties flag set, once, both entries of c are
\* gone and the flag is back to false afterwards.
C19_LateSubProperties ==
    /\ \A j \in ReceivedSignals(last, "propertyInserted") :
          LET r == last.received[j]
              made == {k \in EmittedSignals(last, "propertyInserted") :
                          last.emitted[k].slot = j}
          IN (~r.creating /\ r.f # NULL) =>
                /\ Cardinality(made) = 1
                /\ \A k \in made :
                      LET e == last.emitted[k]
                          c == e.p
                          sub == internals[internals[r.i].parent].sub
                          n == SeqIndex(sub, r.i)
                      IN /\ e.parent = r.f
                         /\ properties[c].wrapper
                         /\ {q \in Facades : Lookup(propertyToWrappedProperty, q, NULL) = r.i}
                               = {c}
                         /\ Lookup(m_internalToProperty[r.b], r.i, NULL) = c
                         /\ properties[c].parent = r.f
                         /\ n # 0
                         /\ properties[r.f].sub[n] = c
                         /\ e.after = (IF n = 1 THEN NULL
                                       ELSE Lookup(m_internalToProperty[r.b], sub[n - 1], NULL))
                         /\ n > 1 => e.after = properties[r.f].sub[n - 1]
    /\ \A j \in ReceivedSignals(last, "propertyRemoved") :
          LET r == last.received[j] IN
          r.f # NULL =>
              /\ properties[r.f].st = "destroyed"
              /\ properties[r.f].life = Lifecycle
              /\ properties[r.f].deleted = 1
              /\ \A k \in EmittedSignals(last, "propertyDestroyed") :
                    last.emitted[k].p = r.f => last.emitted[k].destroying
              /\ \E k \in EmittedSignals(last, "propertyDestroyed") : last.emitted[k].p = r.f
              /\ \A l \in ReceivedSignals(last, "propertyRemoved") :
                    last.received[l].f = r.f => l = j
              /\ r.f \notin DOMAIN propertyToWrappedProperty
              /\ r.i \notin DOMAIN m_internalToProperty[r.b]
              /\ ~m_destroyingSubProperties[r.b]

C19_Witness ==
    /\ last.op = "setAttribute"
    /\ last.v = StrListV(<<"Left", "Right">>)
    /\ \E j \in ReceivedSignals(last, "propertyRemoved") :
          /\ last.received[j].f # NULL
          /\ properties[last.received[j].f].st = "destroyed"
    /\ \E j \in ReceivedSignals(last, "propertyInserted"),
          k \in EmittedSignals(last, "propertyInserted") :
          /\ ~last.received[j].creating
          /\ last.received[j].f = last.p
          /\ last.emitted[k].slot = j
          /\ last.emitted[k].after # NULL
          /\ wrappedProperty(World, last.emitted[k].p) = last.received[j].i
          /\ Len(properties[last.p].sub) = 2

\* The facade type of each manager class createSubProperty wraps.
InferredType ==
    ("QtIntPropertyManager" :> "Int") @@ ("QtBoolPropertyManager" :> "Bool")
    @@ ("QtDoublePropertyManager" :> "Double") @@ ("QtEnumPropertyManager" :> enumTypeId)

C20_Step ==
    last'.op = "addSubProperty" =>
        LET b == last'.b
            parent == last'.p
            cls == last'.t
            child == Len(internals) + 1
            sub == internals[parent].sub
            after == IF Len(sub) > 0 THEN sub[Len(sub)] ELSE NULL
            reached == /\ parent \in DOMAIN m_internalToProperty[b]
                       /\ after # NULL => after \in DOMAIN m_internalToProperty[b]
            c == Len(properties) + 1
        IN /\ internalPropertyToType(World', child) =
                 (IF cls \in DOMAIN InferredType THEN InferredType[cls] ELSE UnknownType)
           /\ (cls \in DOMAIN InferredType /\ reached) =>
                 /\ Len(properties') = c
                 /\ last'.ret = c
                 /\ properties'[c].wrapper
                 /\ propertyType(World', b, c) = InferredType[cls]
                 /\ wrappedProperty(World', c) = child
                 /\ Lookup(m_internalToProperty'[b], child, NULL) = c
           /\ cls \notin DOMAIN InferredType =>
                 /\ last'.ret = NULL
                 /\ last'.emitted = <<>>
                 /\ UNCHANGED <<properties, propertyToWrappedProperty,
                                m_internalToProperty, m_propertyToType>>

\* C20: the type createSubProperty infers for an internal sub-property is
\* Int for an int manager's, Bool for a bool manager's, Double for a double
\* manager's and the enum type id for an enum manager's property, and a
\* facade of that type is created for it; for a property of any other
\* manager it is `no match`: no facade is created, no signal emitted and no
\* entry added to either map.
C20_TypeInference == [][C20_Step]_vars

C20_Witness ==
    /\ last.op = "addSubProperty"
    /\ last.t = "QtStringPropertyManager"
    /\ last.ret = NULL
    /\ internals[Len(internals)].mgr.cls = "QtStringPropertyManager"
    /\ internals[Len(internals)].parent = last.p
    /\ Len(internals) \notin DOMAIN m_internalToProperty[last.b]
    /\ \E c \in LiveFacades :
          /\ properties[c].wrapper
          /\ propertyType(World, last.b, c) = enumTypeId
          /\ internals[wrappedProperty(World, c)].parent = last.p

\* C21: on every Bridge the enum and the flag type have value type Int and
\* the group type has value type UnknownType; the three type ids differ from
\* each other and from every concrete type id; hasValue(f) is false exactly
\* for the facades the Bridge created with the group type.
C21_SyntheticTypes ==
    /\ \A b \in Bridges :
          alive[b] =>
              /\ valueTypeOfType(World, b, enumTypeId) = "Int"
              /\ valueTypeOfType(World, b, flagTypeId) = "Int"
              /\ valueTypeOfType(World, b, groupTypeId) = UnknownType
              /\ \A p \in Facades :
                    hasValue(World, b, p) <=>
                        ~(/\ p \in DOMAIN m_propertyToType[b]
                          /\ m_propertyToType[b][p].second = groupTypeId)
    /\ Cardinality({enumTypeId, flagTypeId, groupTypeId}) = 3
    /\ {enumTypeId, flagTypeId, groupTypeId} \cap (ConcreteTypes \cup {UnknownType}) = {}

C21_Witness ==
    \E b \in Bridges, f, g \in LiveFacades :
        /\ alive[b]
        /\ propertyType(World, b, f) = groupTypeId
        /\ ~hasValue(World, b, f)
        /\ valueType(World, b, f) = UnknownType
        /\ propertyType(World, b, g) = flagTypeId
        /\ hasValue(World, b, g)
        /\ valueType(World, b, g) = "Int"
        /\ \E c \in Bridges : c # b /\ alive[c] /\ hasValue(World, c, f)

\* The attributes of a property type with their types, as attributes() and
\* attributeType() of Bridge b answer them.
AttributeTable(b, t) ==
    [a \in attributes(World, b, t) |-> attributeType(World, b, t, a)]

InheritedCalls(call) ==
    {k \in 1..Len(call.calls) : call.calls[k].fn = "addProperty(name)"}

C23_Step ==
    /\ last'.op = "addProperty(name)" =>
          /\ last'.ret = NULL
          /\ UNCHANGED <<properties, internals, propertyToWrappedProperty,
                         m_propertyToType, m_internalToProperty>>
    /\ last'.op = "addProperty" =>
          /\ \A k \in InheritedCalls(last') : last'.calls[k].i = NULL
          /\ InheritedCalls(last') # {} =>
                /\ Len(properties') <= Len(properties) + 1
                /\ \A b \in Bridges :
                      Cardinality(DOMAIN m_propertyToType'[b]) <=
                          Cardinality(DOMAIN m_propertyToType[b]) + 1

\* C23: the inherited addProperty(name) returns 0 and creates no facade and
\* no map entry, when a client calls it and when a slot calls it while
\* addProperty(type, name) is creating a property: that creation then adds
\* the one facade it returns and nothing else.
C23_InheritedAddProperty == [][C23_Step]_vars

C24_Step ==
    /\ \A b \in Bridges, p \in 1..Len(properties') :
          alive'[b] =>
              /\ Lookup(propertyToWrappedProperty', p, NULL) = NULL =>
                    value(World', b, p) = Invalid
              /\ (/\ p \in DOMAIN propertyToWrappedProperty'
                  /\ propertyToWrappedProperty'[p] # NULL
                  /\ internals'[propertyToWrappedProperty'[p]].mgr.cls =
                         "QtGroupPropertyManager") =>
                    value(World', b, p) = Invalid
              /\ (properties'[p].st = "live" /\ propertyType(World', b, p) = groupTypeId) =>
                    value(World', b, p) = Invalid
    /\ (/\ last'.op = "setValue"
        /\ \E b \in Bridges : propertyType(World, b, last'.p) = groupTypeId) =>
          /\ UNCHANGED <<properties, internals, propertyToWrappedProperty,
                         m_propertyToType, m_internalToProperty, m_propertyType,
                         m_creatingProperty, m_creatingSubProperties,
                         m_destroyingSubProperties, alive>>
          /\ last'.emitted = <<>>
          /\ last'.calls = <<>>

\* C24: value(f) is the invalid value for a facade without internal
\* counterpart and for a facade whose internal property belongs to the
\* group manager, so for every facade of the group type; setValue(f, v) on
\* a facade of the group type changes no state, reaches no internal setter
\* and emits nothing, whatever v and whichever Bridge is asked.
C24_GroupHasNoValue == [][C24_Step]_vars

C24_Witness ==
    /\ last.op = "setValue"
    /\ last.v = IntV(5)
    /\ propertyType(World, last.b, last.p) = groupTypeId
    /\ wrappedProperty(World, last.p) # NULL
    /\ value(World, last.b, last.p) = Invalid
    /\ last.emitted = <<>>
    /\ \E q \in LiveFacades :
          /\ propertyType(World, last.b, q) = "Int"
          /\ wrappedProperty(World, q) = NULL
          /\ value(World, last.b, q) = Invalid

C25_Step ==
    /\ UNCHANGED <<m_typeToPropertyManager, m_typeToValueType,
                   m_typeToAttributeToAttributeType>>
    /\ \A b \in Bridges :
          /\ m_typeToPropertyManager'[b] = TypeToPropertyManagerInit
          /\ m_typeToValueType'[b] = TypeToValueTypeInit
          /\ m_typeToAttributeToAttributeType'[b] = TypeToAttributeToAttributeTypeInit
          /\ \A t \in {"Int", groupTypeId, "QBitArray", iconMapTypeId, UnknownType} :
                isPropertyTypeSupported(World', b, t) = isPropertyTypeSupported(World, b, t)

\* C25: no call changes the three maps of the type registry; they stay what
\* the constructor made them, also after a query with a type id that is not
\* registered.
C25_RegistryFixed == [][C25_Step]_vars

C25_Witness ==
    /\ last.op = "valueType"
    /\ last.t = "QBitArray"
    /\ ~isPropertyTypeSupported(World, last.b, "QBitArray")
    /\ valueTypeOfType(World, last.b, "QBitArray") = UnknownType
    /\ \E p \in Facades : properties[p].st = "destroyed"

C26_Step ==
    last'.op = "createEditor" =>
        LET factory == Lookup(TypeToFactoryInit, last'.t, "") IN
        IF factory = ""
        THEN last'.ret = [factory |-> "", kind |-> "none", id |-> NULL, widget |-> FALSE]
        ELSE /\ last'.ret.factory = factory
             /\ last'.ret.kind = "internal"
             /\ last'.ret.id = wrappedProperty(World, last'.p)
             /\ last'.ret.id \in DOMAIN m_internalToProperty[last'.b]
             /\ m_internalToProperty[last'.b][last'.ret.id] = last'.p

\* C26: createEditor(bridge, facade, parent) returns no widget, asking no
\* factory, when the factory table has no entry for the facade's declared
\* type; otherwise it asks the factory of that type to build the editor on
\* the facade's internal counterpart, the internal property the
\* facade->internal map holds for it, never on the facade.
C26_CreateEditor == [][C26_Step]_vars

\* A type whose value is a subtree of internal sub-properties.
Composite(t) ==
    /\ t \in DOMAIN TypeToPropertyManagerInit
    /\ \/ SubPropertyClasses(ManagerClass(t)) # <<>>
       \/ t = flagTypeId

C27_Step ==
    last'.op = "createEditor" /\ Composite(last'.t) =>
        /\ last'.ret.factory = ""
        /\ ~last'.ret.widget

\* C27: the factory table has no entry for a composite type, so createEditor
\* asks no factory and returns no widget for every facade of a composite
\* type.
C27_NoCompositeEditor == [][C27_Step]_vars

C28_Step ==
    /\ last'.op = "addPropertyManager" =>
          /\ \A f \in DOMAIN m_managers \ {"q_ptr"} :
                /\ m_managers'[f] \ m_managers[f] = HandedTo(World, last'.b, ConnectSteps, f)
                /\ disconnectPropertyManager(World', last'.b).m_managers[f] = m_managers[f]
          /\ \E f \in DOMAIN m_managers \ {"q_ptr"} : m_managers'[f] # m_managers[f]
    /\ last'.op = "removePropertyManager" =>
          \A f \in DOMAIN m_managers \ {"q_ptr"} :
             /\ m_managers[f] \ m_managers'[f] = HandedTo(World, last'.b, ConnectSteps, f)
             /\ m_managers'[f] = {m \in m_managers[f] : m.b # last'.b}
             /\ connectPropertyManager(World', last'.b).m_managers[f] = m_managers[f]

\* C28: disconnectPropertyManager(bridge) deregisters exactly the (editor
\* factory, manager) pairs connectPropertyManager(bridge) registers: a
\* connect followed by a disconnect leaves every factory's set of managers
\* as it was, and a disconnect takes away the pairs of that Bridge and no
\* other.
C28_DisconnectInverse == [][C28_Step]_vars

C28_Witness ==
    /\ last.op = "removePropertyManager"
    /\ m_managers["q_ptr"] # {}
    /\ \E m \in m_managers["m_fontEditorFactory"] : m.b # last.b
    /\ \E p \in LiveFacades : properties[p].manager = last.b

\* C29: the type-check helper returns the wrapper for every
\* QDesignerAxPluginWidget, whether it answers as "QDesignerAxWidget"
\* (unloaded) or as "QAxWidget" (loaded), and null for a null object.
C29_CastRecognizesWrapper ==
    \A undefined \in DOMAIN widgets \cup {NULL} :
       /\ qobject_cast(World, NULL, undefined) = NULL
       /\ \A o \in DOMAIN widgets :
             widgets[o].cls = "QDesignerAxPluginWidget" =>
                /\ className(World, o) =
                       (IF loaded(World, o) THEN "QAxWidget" ELSE "QDesignerAxWidget")
                /\ qobject_cast(World, o, undefined) = o

C29_Witness ==
    /\ last.op = "loadControl"
    /\ \E o, u \in DOMAIN widgets :
          /\ className(World, o) = "QAxWidget" /\ qobject_cast(World, o, NULL) = o
          /\ className(World, u) = "QDesignerAxWidget" /\ qobject_cast(World, u, NULL) = u
          /\ \E i \in DOMAIN controls : controls[i].owner = u

\* The live control instances wrapper o created.
Held(o) == {i \in DOMAIN controls : controls[i].owner = o /\ controls[i].st = "live"}

Allocated(b, p, t) ==
    /\ propertyType(World, b, p) = t
    /\ wrappedProperty(World, p) # NULL
    /\ internals[wrappedProperty(World, p)].mgr = m_typeToPropertyManager[b][t]
    /\ Lookup(m_internalToProperty[b], wrappedProperty(World, p), NULL) = p

\* C31: when a slot that runs inside addProperty(t, name) calls
\* addProperty(t2, name2) itself, both calls return facades of the requested
\* type whose internal property the manager registered for that type
\* allocated: the outer call's pending type id survives the inner call.
C31_ReentrantCreation ==
    (/\ last.op = "addProperty"
     /\ last.h.kind = "addProperty"
     /\ last.name # ""
     /\ isPropertyTypeSupported(World, last.b, last.t)
     /\ isPropertyTypeSupported(World, last.b, last.h.t)) =>
        /\ last.ret # NULL
        /\ Allocated(last.b, last.ret, last.t)
        /\ \E q \in Facades \ {last.ret} : Allocated(last.b, q, last.h.t)

\* C32: for every live facade f mapped to internal property i, the child
\* facades of f are live and mapped, one to one and in the same order, to
\* the sub-properties of i that int, bool, double or enum managers own.
C32_TreeMirroring ==
    \A f \in LiveFacades :
       LET i == wrappedProperty(World, f) IN
       i # NULL =>
          LET wrappable == SelectSeq(internals[i].sub,
                                     LAMBDA c : internalPropertyToType(World, c) # UnknownType)
          IN /\ Len(properties[f].sub) = Len(wrappable)
             /\ \A k \in 1..Len(wrappable) :
                   /\ properties[properties[f].sub[k]].st = "live"
                   /\ wrappedProperty(World, properties[f].sub[k]) = wrappable[k]

\* C33: the three suppression flags are balanced.  addProperty,
\* createSubProperty and removeSubProperty put their flag back to the value
\* it had on entry, also when nested, so between client calls the creating,
\* creating-sub-properties and destroying-sub-properties flags of every Bridge
\* are false and its pending type id is 0; a facade handed to the client by
\* addProperty was not created under the creating-sub-properties flag.
C33_FlagsBalanced ==
    /\ \A b \in Bridges :
          /\ ~m_creatingProperty[b]
          /\ ~m_creatingSubProperties[b]
          /\ ~m_destroyingSubProperties[b]
          /\ m_propertyType[b] = UnknownType
    /\ (last.op = "addProperty" /\ last.ret # NULL) => ~properties[last.ret].wrapper

\* A flagNames write that ran removeSubProperty and then createSubProperty with
\* its nested addProperty.
C33_Witness ==
    /\ last.op = "setAttribute"
    /\ \E j \in ReceivedSignals(last, "propertyRemoved") : last.received[j].f # NULL
    /\ \E k \in EmittedSignals(last, "propertyInserted") :
          /\ properties[last.emitted[k].p].wrapper
          /\ properties[last.emitted[k].p].st = "live"
    /\ ~m_destroyingSubProperties[last.b]

C35_Step ==
    LET b == last'.b
        newInternals == (Len(internals) + 1)..Len(internals')
        allocated == {i \in newInternals : internals'[i].parent = NULL}
        newFacades == (Len(properties) + 1)..Len(properties')
        wrappers == {f \in newFacades : properties'[f].wrapper}
        Wrapped(f) == Lookup(propertyToWrappedProperty', f, NULL)
        Type(f) == Lookup(m_propertyToType'[b], f, [second |-> UnknownType]).second
    IN last'.op \in {"addProperty", "setAttribute"} =>
          /\ \A f \in wrappers :
                /\ Wrapped(f) # NULL
                /\ Wrapped(f) \notin allocated
                /\ properties'[f].parent # NULL
                /\ internals'[Wrapped(f)].parent = Wrapped(properties'[f].parent)
                /\ Lookup(m_internalToProperty'[b], Wrapped(f), NULL) = f
          /\ \A i \in allocated :
                /\ Lookup(m_internalToProperty'[b], i, NULL) \in newFacades \ wrappers
                /\ internals'[i].mgr =
                      m_typeToPropertyManager[b][Type(m_internalToProperty'[b][i])]
          /\ \A f \in newFacades \ wrappers :
                Type(f) \in DOMAIN m_typeToPropertyManager[b] =>
                   /\ Wrapped(f) \in allocated
                   /\ {i \in allocated : Lookup(m_internalToProperty'[b], i, NULL) = f}
                         = {Wrapped(f)}
          /\ last'.op = "setAttribute" => allocated = {}

C35_WrapAllocatesNothing == [][C35_Step]_vars

\* C36: the attribute registry and the attribute dispatch agree.  For every
\* registered type t and every a in attributes(t), attributeType(t, a) is not
\* 0 and attributeValue(f, a) is valid for every live top-level facade f of
\* type t; setAttribute(f, a, v) with v of type attributeType(t, a) calls
\* exactly one setter of an internal manager, the one for a, on f's internal
\* property; with a name that is no attribute of f's type it calls none and
\* attributeValue is invalid.
C36_RegistryDispatch ==
    /\ \A b \in Bridges, t \in RegisteredTypes :
          alive[b] =>
             \A a \in attributes(World, b, t) :
                /\ attributeType(World, b, t, a) # UnknownType
                /\ \A f \in LiveFacades :
                      (~properties[f].wrapper /\ propertyType(World, b, f) = t) =>
                         isValid(attributeValue(World, b, f, a))
    /\ (last.op = "setAttribute" /\ ~properties[last.p].wrapper) =>
          LET t == propertyType(World, last.b, last.p)
              setters == {k \in 1..Len(last.calls) : last.calls[k].fn # "delete"}
          IN IF last.a \in attributes(World, last.b, t)
             THEN last.v.t = attributeType(World, last.b, t, last.a) =>
                     /\ Cardinality(setters) = 1
                     /\ \A k \in setters :
                           /\ last.calls[k].fn = SetterName(last.a)
                           /\ last.calls[k].i = wrappedProperty(World, last.p)
             ELSE /\ last.calls = <<>>
                  /\ ~isValid(attributeValue(World, last.b, last.p, last.a))

\* C37: event ordering.  For one valueChanged of an internal manager about a
\* property that has facade f, the Bridge emits valueChanged(f, v) and right
\* after it propertyChanged(f), these two and once; for one rangeChanged it
\* emits attributeChanged(f, "minimum", min) and right after it
\* attributeChanged(f, "maximum", max), these two and once.
C37_EventOrdering ==
    \A j \in 1..Len(last.received) :
       LET r == last.received[j]
           made == {k \in 1..Len(last.emitted) : last.emitted[k].slot = j}
           first == CHOOSE k \in made : \A n \in made : k <= n
           e1 == last.emitted[first]
           e2 == last.emitted[first + 1]
       IN (r.f # NULL /\ r.sig \in {"valueChanged", "rangeChanged"}) =>
             /\ made # {}
             /\ made = {first, first + 1}
             /\ e1.p = r.f /\ e2.p = r.f /\ e1.b = r.b /\ e2.b = r.b
             /\ IF r.sig = "valueChanged"
                THEN /\ e1.sig = "valueChanged" /\ isValid(e1.v)
                     /\ e2.sig = "propertyChanged"
                ELSE /\ e1.sig = "attributeChanged" /\ e1.a = m_minimumAttribute
                     /\ e2.sig = "attributeChanged" /\ e2.a = m_maximumAttribute
                     /\ isValid(e1.v) /\ e1.v.t = e2.v.t

\* setAttribute("minimum", 10) on an Int facade of value 0: the int manager
\* signals the range change and then the value change.
C37_Witness ==
    /\ last.op = "setAttribute"
    /\ last.a = m_minimumAttribute
    /\ \E j \in ReceivedSignals(last, "rangeChanged"),
          n \in ReceivedSignals(last, "valueChanged") :
          /\ j < n
          /\ last.received[j].f = last.p
          /\ last.received[n].f = last.p
    /\ \E k \in 1..(Len(last.emitted) - 1) :
          /\ last.emitted[k].sig = "attributeChanged"
          /\ last.emitted[k].v = IntV(10)
          /\ last.emitted[k + 1].a = m_maximumAttribute
    /\ \E k \in 1..(Len(last.emitted) - 1) :
          /\ last.emitted[k].sig = "valueChanged"
          /\ last.emitted[k].v = IntV(10)
          /\ last.emitted[k + 1].sig = "propertyChanged"

\* C38: qobject_cast<QDesignerAxWidget*>(o) returns a non-null pointer only
\* when o really is a wrapper, and then o itself: an object whose class name
\* reads "QAxWidget" or "QDesignerAxWidget" but which is no
\* QDesignerAxPluginWidget is not returned as a wrapper, whatever the
\* static_cast of such an object yields.
C38_CastOnlyWrappers ==
    \A undefined \in DOMAIN widgets \cup {NULL}, o \in DOMAIN widgets :
       qobject_cast(World, o, undefined) # NULL =>
          /\ widgets[o].cls = "QDesignerAxPluginWidget"
          /\ qobject_cast(World, o, undefined) = o

====
